---- MODULE Spec2Model ----
\* Verification model of the MongoDB source connector's iterator subsystem
\* (conduit-connector-mongo): the Combined iterator made of the change-stream
\* iterator (cdc), the snapshot iterator and the polling snapshot iterator,
\* driven by Source.Open / Source.Read / Source.Teardown, running against a
\* MongoDB collection that other clients insert into, update and delete from.
\*
\* Abstractions (stated once, used everywhere below):
\*   - a document is [id, ord, ver]: its _id, the value of the configured
\*     ordering field, and a version counter standing for the rest of its
\*     payload (an update bumps ver and leaves id and ord alone);
\*   - the engine's change stream is the sequence oplog of insert / update /
\*     delete events of the collection; a resume token is an index into oplog
\*     (the number of events at or before the token), so "resume after t"
\*     delivers oplog[t+1], oplog[t+2], ...;
\*   - mongo.Collection.Find returns a cursor over the documents matching at
\*     the time of the call (one server batch), sorted and limited;
\*   - engine calls do not fail, except that Watch is rejected with the
\*     match/project marker when the engine lacks change streams (csOK = FALSE).
EXTENDS Integers, Sequences, FiniteSets, TLC

\* ---------------------------------------------------------------- bounds
MaxDocs == 3      \* documents ever created (ids 1..MaxDocs)
MaxEvents == 2    \* change events ever recorded in the oplog

\* the inputs the model enumerates
Vals == {1, 2, 3}          \* ordering-field values
BatchSizes == {1, 2}       \* Config.BatchSize
InitialSizes == {0, 1, 2}  \* number of documents in the collection at the start

\* nil for the numeric fields of a position (Element, MaxElement, ResumeToken)
Nil == -1

modeSnapshot == "snapshot"
modeCDC == "cdc"

operationTypeInsert == "insert"
operationTypeUpdate == "update"
operationTypeDelete == "delete"

\* a nil *position, a nil opencdc.Position, a nil sub-iterator, a nil cursor
NoPos == [Mode |-> "none"]
NilSDKPosition == [k \in {"nil"} |-> TRUE]
NoIter == [nil |-> TRUE]
NoDoc == [id |-> 0, ord |-> 0, ver |-> 0]
NoCursor == [open |-> FALSE, rows |-> <<>>, current |-> NoDoc]

\* no call followed, no position in the codec
NoResult == [op |-> "none"]
NoCodec == [stage |-> "none"]
NoDest == [client |-> "none"]

\* Config.DB and Config.Collection, as the pair the engine lists
ConfiguredNames == <<"db", "collection">>

VARIABLES
    coll,      \* the collection: a set of documents [id, ord, ver]
    oplog,     \* the engine's change events, oldest first
    nIds,      \* number of ids handed out so far
    cfg,       \* source Config: [snapshot, batchSize] and the engine's capability csOK
    pc,        \* where the Source is: "closed", "opening" (inside NewCombined), "open"
    openPos,   \* NewCombined's parsed position (a local of NewCombined)
    cdc,       \* Combined.cdc: NoIter or the change stream [token, current]
    snapshot,  \* Combined.snapshot: NoIter or the snapshot struct
    pollingSnapshot, \* Combined.pollingSnapshot
    hasRead,   \* whether Read has been called since the latest Open
    out,       \* history: every record Read returned, over all runs, in order
    runStart,  \* history: Len(out) when the current run was opened
    base,      \* history, of the latest Open that got a nil position: t0, the end of
               \* the oplog when its change stream was created; docs, the ids in
               \* the collection when it returned; max, the snapshot upper bound
    everDocs,  \* history: [id, ord] of every document that has ever existed
    ref,       \* the reference run: a Source opened together with the latest
               \* Open that got a nil position, read whenever the Source is
               \* read, and never torn down (RefNone where it is not followed)
    result,    \* what the latest call of the Source returned to the host
               \* (NoResult where outcomes are not followed)
    codec,     \* a position on its way through marshalSDKPosition and
               \* parsePosition (NoCodec where the codec is not exercised)
    client,    \* Source.client: "nil", "connected" or "disconnected"
    catalog,   \* the engine's listing: the <<database, collection>> names
    dest       \* the Destination, with the collections it writes to
               \* (NoDest where no destination runs)

vars == <<coll, oplog, nIds, cfg, pc, openPos, cdc, snapshot, pollingSnapshot,
          hasRead, out, runStart, base, everDocs, ref, result, codec,
          client, catalog, dest>>

engineVars == <<coll, oplog, nIds, everDocs>>
iterVars == <<cdc, snapshot, pollingSnapshot>>
shadowVars == <<ref, result, codec, client, catalog, dest>>

\* ---------------------------------------------------------------- helpers
Max(S) == CHOOSE x \in S : \A y \in S : y <= x
Min(S) == CHOOSE x \in S : \A y \in S : x <= y

\* the document with the given id, which must be in the collection
DocOf(i) == CHOOSE d \in coll : d.id = i

\* documents in ascending order of the ordering field; equal values in id order
SortAsc(S) ==
    LET Before(d) == {e \in S : e.ord < d.ord \/ (e.ord = d.ord /\ e.id < d.id)}
    IN [k \in 1..Cardinality(S) |-> CHOOSE d \in S : Cardinality(Before(d)) = k - 1]

Take(s, n) == SubSeq(s, 1, IF Len(s) < n THEN Len(s) ELSE n)

\* ---------------------------------------------------------------- position codec
\* position.marshalSDKPosition: JSON with omitempty on resumeToken, element and
\* maxElement; the result maps each key that is written to its value.
marshalSDKPosition(p) ==
    LET keys == {"mode"}
                  \cup (IF p.ResumeToken = Nil THEN {} ELSE {"resumeToken"})
                  \cup (IF p.Element = Nil THEN {} ELSE {"element"})
                  \cup (IF p.MaxElement = Nil THEN {} ELSE {"maxElement"})
    IN [k \in keys |-> CASE k = "mode" -> p.Mode
                         [] k = "resumeToken" -> p.ResumeToken
                         [] k = "element" -> p.Element
                         [] k = "maxElement" -> p.MaxElement]

JSONField(b, k) == IF k \in DOMAIN b THEN b[k] ELSE Nil

\* parsePosition: nil input gives errNilSDKPosition, which NewCombined treats
\* as "no position"; absent keys stay at their zero value (nil).
parsePosition(sdkPosition) ==
    IF sdkPosition = NilSDKPosition THEN NoPos
    ELSE [Mode |-> sdkPosition["mode"],
          ResumeToken |-> JSONField(sdkPosition, "resumeToken"),
          Element |-> JSONField(sdkPosition, "element"),
          MaxElement |-> JSONField(sdkPosition, "maxElement")]

\* the position the host passes to Open: that of the last record Read returned
LastSDKPosition == IF out = <<>> THEN NilSDKPosition ELSE out[Len(out)].pos

\* ---------------------------------------------------------------- the engine
\* Other clients of the collection. Each change is recorded in the oplog, from
\* which every change stream on the collection is served.
Event(op, d) == [op |-> op, id |-> d.id, ord |-> d.ord, ver |-> d.ver]

Insert(v) ==
    /\ nIds < MaxDocs
    /\ Len(oplog) < MaxEvents
    /\ LET d == [id |-> nIds + 1, ord |-> v, ver |-> 0]
       IN /\ coll' = coll \cup {d}
          /\ oplog' = Append(oplog, Event(operationTypeInsert, d))
    /\ nIds' = nIds + 1
    /\ everDocs' = everDocs \cup {[id |-> nIds + 1, ord |-> v]}
    /\ UNCHANGED <<cfg, pc, openPos, iterVars, hasRead, out, runStart, base>>

Update(d) ==
    /\ d \in coll
    /\ Len(oplog) < MaxEvents
    /\ LET d1 == [d EXCEPT !.ver = d.ver + 1]
       IN /\ coll' = (coll \ {d}) \cup {d1}
          /\ oplog' = Append(oplog, Event(operationTypeUpdate, d1))
    /\ UNCHANGED <<nIds, everDocs, cfg, pc, openPos, iterVars, hasRead, out, runStart, base>>

Delete(d) ==
    /\ d \in coll
    /\ Len(oplog) < MaxEvents
    /\ coll' = coll \ {d}
    /\ oplog' = Append(oplog, Event(operationTypeDelete, d))
    /\ UNCHANGED <<nIds, everDocs, cfg, pc, openPos, iterVars, hasRead, out, runStart, base>>

\* a createChangeStream that never resumes: it always starts at the present
createChangeStream_FromNow(position) ==
    [token |-> Len(oplog), current |-> 0]

\* ---------------------------------------------------------------- change-stream iterator
\* createChangeStream: Watch with ResumeAfter(position.ResumeToken) when the
\* position has a resume token, otherwise from the current end of the oplog.
createChangeStream(position) ==
    [token |-> IF position # NoPos /\ position.ResumeToken # Nil
               THEN position.ResumeToken
               ELSE Len(oplog),
     current |-> 0]

\* newCDC
newCDC(position) == createChangeStream(position)

\* mongo.ChangeStream.ResumeToken: before the stream has returned an event it
\* is the token the stream was opened after (the resumeAfter token, or the
\* engine's post-batch token of the moment of Watch), afterwards the token of
\* the last event returned
ResumeToken(c) == c.token

\* cdc.hasNext: ChangeStream.TryNext moves to the next event when there is one
cdcHasNext(c) ==
    IF c.token < Len(oplog)
    THEN [ok |-> TRUE, it |-> [token |-> c.token + 1, current |-> c.token + 1]]
    ELSE [ok |-> FALSE, it |-> c]

\* the post-image the engine attaches under the update-lookup policy: the
\* document as it is when the event is served, nil when it is gone
FullDocumentVer(e) ==
    IF e.op = operationTypeInsert THEN e.ver
    ELSE IF e.op = operationTypeUpdate
         THEN (IF \E d \in coll : d.id = e.id THEN DocOf(e.id).ver ELSE Nil)
         ELSE Nil

\* changeStreamEvent.toRecord
toRecord(i) ==
    LET e == oplog[i]
        position == [Mode |-> modeCDC, ResumeToken |-> i, Element |-> Nil, MaxElement |-> Nil]
    IN [op |-> CASE e.op = operationTypeInsert -> "create"
                 [] e.op = operationTypeUpdate -> "update"
                 [] e.op = operationTypeDelete -> "delete",
        id |-> e.id, ord |-> e.ord, ver |-> FullDocumentVer(e),
        pos |-> marshalSDKPosition(position), ev |-> i]

\* cdc.next
cdcNext(c) == toRecord(c.current)

\* ---------------------------------------------------------------- snapshot iterator
\* getMaxFieldValue: nil (errNoDocuments, which the callers ignore) on an empty
\* collection, otherwise the ordering-field value of the first document in
\* descending order
getMaxFieldValue == IF coll = {} THEN Nil ELSE Max({d.ord : d \in coll})

\* a newSnapshot that takes the upper bound anew on every start
newSnapshot_Recompute(position, resumeToken) ==
    [cursor |-> NoCursor,
     position |-> position,
     orderingFieldMaxValue |-> getMaxFieldValue,
     resumeToken |-> resumeToken,
     polling |-> FALSE]

\* a newSnapshot that forgets how far the snapshot had come
newSnapshot_DropPosition(position, resumeToken) ==
    [cursor |-> NoCursor,
     position |-> NoPos,
     orderingFieldMaxValue |->
        IF position # NoPos /\ position.MaxElement # Nil
        THEN position.MaxElement
        ELSE getMaxFieldValue,
     resumeToken |-> resumeToken,
     polling |-> FALSE]

\* newSnapshot
newSnapshot(position, resumeToken) ==
    [cursor |-> NoCursor,
     position |-> position,
     orderingFieldMaxValue |->
        IF position # NoPos /\ position.MaxElement # Nil
        THEN position.MaxElement
        ELSE getMaxFieldValue,
     resumeToken |-> resumeToken,
     polling |-> FALSE]

\* newPollingSnapshot
newPollingSnapshot(position) ==
    [cursor |-> NoCursor,
     position |->
        IF position = NoPos \/ position.Mode = modeSnapshot
        THEN [Mode |-> modeCDC, ResumeToken |-> Nil,
              Element |-> getMaxFieldValue, MaxElement |-> Nil]
        ELSE position,
     orderingFieldMaxValue |-> Nil,
     resumeToken |-> Nil,
     polling |-> TRUE]

\* the documents matching loadBatch's filter {orderingField: {$lte, $gt}};
\* with neither bound the filter is {orderingField: {}}, an equality match
\* with the empty document, which no document of the model satisfies
Matching(lte, gt) ==
    IF lte = Nil /\ gt = Nil THEN {}
    ELSE {d \in coll : (lte = Nil \/ d.ord <= lte) /\ (gt = Nil \/ d.ord > gt)}

\* a loadBatch that sorts in descending order
loadBatch_Desc(s) ==
    LET gt == IF s.position # NoPos /\ s.position.Element # Nil
              THEN s.position.Element ELSE Nil
        asc == SortAsc(Matching(s.orderingFieldMaxValue, gt))
        rows == Take([k \in 1..Len(asc) |-> asc[Len(asc) + 1 - k]], cfg.batchSize)
    IN [s EXCEPT !.cursor = [open |-> TRUE, rows |-> rows, current |-> NoDoc]]

\* a loadBatch without the $lte bound
loadBatch_NoLte(s) ==
    LET gt == IF s.position # NoPos /\ s.position.Element # Nil
              THEN s.position.Element ELSE Nil
        rows == Take(SortAsc({d \in coll : gt = Nil \/ d.ord > gt}), cfg.batchSize)
    IN [s EXCEPT !.cursor = [open |-> TRUE, rows |-> rows, current |-> NoDoc]]

\* snapshot.loadBatch
loadBatch(s) ==
    LET gt == IF s.position # NoPos /\ s.position.Element # Nil
              THEN s.position.Element ELSE Nil
        rows == Take(SortAsc(Matching(s.orderingFieldMaxValue, gt)), cfg.batchSize)
    IN [s EXCEPT !.cursor = [open |-> TRUE, rows |-> rows, current |-> NoDoc]]

\* mongo.Cursor.TryNext on a cursor that has a row left
TryNext(s) == [s EXCEPT !.cursor.current = Head(s.cursor.rows),
                        !.cursor.rows = Tail(s.cursor.rows)]

\* a hasNext that never asks for a second batch
snapshotHasNext_FirstBatchOnly(s) ==
    IF s.cursor.open
    THEN IF s.cursor.rows # <<>>
         THEN [ok |-> TRUE, it |-> TryNext(s)]
         ELSE [ok |-> FALSE, it |-> s]
    ELSE LET s1 == loadBatch(s)
         IN IF s1.cursor.rows # <<>>
            THEN [ok |-> TRUE, it |-> TryNext(s1)]
            ELSE [ok |-> FALSE, it |-> s1]

\* snapshot.hasNext
snapshotHasNext(s) ==
    IF s.cursor.open /\ s.cursor.rows # <<>>
    THEN [ok |-> TRUE, it |-> TryNext(s)]
    ELSE LET s1 == loadBatch(s)
         IN IF s1.cursor.rows # <<>>
            THEN [ok |-> TRUE, it |-> TryNext(s1)]
            ELSE [ok |-> FALSE, it |-> s1]

\* a position that is written in cdc mode by the snapshot iterator too
snapshotPosition_ModeCDC(s) ==
    [Mode |-> modeCDC,
     Element |-> s.cursor.current.ord,
     MaxElement |-> s.orderingFieldMaxValue,
     ResumeToken |-> s.resumeToken]

\* a snapshot position without the resume token
snapshotPosition_NoToken(s) ==
    [Mode |-> IF s.polling THEN modeCDC ELSE modeSnapshot,
     Element |-> s.cursor.current.ord,
     MaxElement |-> s.orderingFieldMaxValue,
     ResumeToken |-> Nil]

\* a position that is written in snapshot mode by the polling iterator too
snapshotPosition_ModeSnapshot(s) ==
    [Mode |-> modeSnapshot,
     Element |-> s.cursor.current.ord,
     MaxElement |-> s.orderingFieldMaxValue,
     ResumeToken |-> s.resumeToken]

\* the position snapshot.next builds for the current row
snapshotPosition(s) ==
    [Mode |-> IF s.polling THEN modeCDC ELSE modeSnapshot,
     Element |-> s.cursor.current.ord,
     MaxElement |-> s.orderingFieldMaxValue,
     ResumeToken |-> s.resumeToken]

\* a snapshot.next that tags every record as a snapshot record
snapshotNext_AlwaysSnapshot(s) ==
    LET element == s.cursor.current
        position == snapshotPosition(s)
    IN [rec |-> [op |-> "snapshot",
                 id |-> element.id, ord |-> element.ord, ver |-> element.ver,
                 pos |-> marshalSDKPosition(position), ev |-> 0],
        it |-> [s EXCEPT !.position = position]]

\* snapshot.next: the record, and the iterator with its position advanced
snapshotNext(s) ==
    LET element == s.cursor.current
        position == snapshotPosition(s)
    IN [rec |-> [op |-> IF s.polling THEN "create" ELSE "snapshot",
                 id |-> element.id, ord |-> element.ord, ver |-> element.ver,
                 pos |-> marshalSDKPosition(position), ev |-> 0],
        it |-> [s EXCEPT !.position = position]]

\* snapshot.stop: closes the cursor when there is one
snapshotStop(s) ==
    IF s.cursor.open THEN [s EXCEPT !.cursor.rows = <<>>] ELSE s

\* a HasNext that opens a new change stream when the snapshot is over,
\* instead of using the one opened before the snapshot
CombinedHasNext_ReopenStream(sn, ps, cd) ==
    IF sn # NoIter
    THEN LET h == snapshotHasNext(sn)
         IN IF h.ok
            THEN [ok |-> TRUE, snapshot |-> h.it, pollingSnapshot |-> ps, cdc |-> cd]
            ELSE IF ps # NoIter
                 THEN LET hp == snapshotHasNext(ps)
                      IN [ok |-> hp.ok, snapshot |-> NoIter, pollingSnapshot |-> hp.it, cdc |-> cd]
                 ELSE LET hc == cdcHasNext(createChangeStream(NoPos))
                      IN [ok |-> hc.ok, snapshot |-> NoIter, pollingSnapshot |-> ps, cdc |-> hc.it]
    ELSE IF ps # NoIter
    THEN LET hp == snapshotHasNext(ps)
         IN [ok |-> hp.ok, snapshot |-> sn, pollingSnapshot |-> hp.it, cdc |-> cd]
    ELSE LET hc == cdcHasNext(cd)
         IN [ok |-> hc.ok, snapshot |-> sn, pollingSnapshot |-> ps, cdc |-> hc.it]

\* a HasNext that leaves the snapshot as soon as its current batch is used up
CombinedHasNext_LeaveAfterBatch(sn, ps, cd) ==
    IF sn # NoIter
    THEN LET h == snapshotHasNext_FirstBatchOnly(sn)
         IN IF h.ok
            THEN [ok |-> TRUE, snapshot |-> h.it, pollingSnapshot |-> ps, cdc |-> cd]
            ELSE IF ps # NoIter
                 THEN LET hp == snapshotHasNext(ps)
                      IN [ok |-> hp.ok, snapshot |-> NoIter, pollingSnapshot |-> hp.it, cdc |-> cd]
                 ELSE LET hc == cdcHasNext(cd)
                      IN [ok |-> hc.ok, snapshot |-> NoIter, pollingSnapshot |-> ps, cdc |-> hc.it]
    ELSE IF ps # NoIter
    THEN LET hp == snapshotHasNext(ps)
         IN [ok |-> hp.ok, snapshot |-> sn, pollingSnapshot |-> hp.it, cdc |-> cd]
    ELSE LET hc == cdcHasNext(cd)
         IN [ok |-> hc.ok, snapshot |-> sn, pollingSnapshot |-> ps, cdc |-> hc.it]

\* ---------------------------------------------------------------- combined iterator
\* Combined.HasNext on the sub-iterators (sn, ps, cd): the answer and the
\* sub-iterators afterwards
CombinedHasNext(sn, ps, cd) ==
    IF sn # NoIter
    THEN LET h == snapshotHasNext(sn)
         IN IF h.ok
            THEN [ok |-> TRUE, snapshot |-> h.it, pollingSnapshot |-> ps, cdc |-> cd]
            ELSE \* the snapshot is over: stop it, drop it, ask the next iterator
                 IF ps # NoIter
                 THEN LET hp == snapshotHasNext(ps)
                      IN [ok |-> hp.ok, snapshot |-> NoIter, pollingSnapshot |-> hp.it, cdc |-> cd]
                 ELSE LET hc == cdcHasNext(cd)
                      IN [ok |-> hc.ok, snapshot |-> NoIter, pollingSnapshot |-> ps, cdc |-> hc.it]
    ELSE IF ps # NoIter
    THEN LET hp == snapshotHasNext(ps)
         IN [ok |-> hp.ok, snapshot |-> sn, pollingSnapshot |-> hp.it, cdc |-> cd]
    ELSE LET hc == cdcHasNext(cd)
         IN [ok |-> hc.ok, snapshot |-> sn, pollingSnapshot |-> ps, cdc |-> hc.it]

\* Combined.Next on the sub-iterators left by HasNext: the record and the
\* sub-iterators afterwards
CombinedNext(sn, ps, cd) ==
    IF sn # NoIter
    THEN LET n == snapshotNext(sn)
         IN [rec |-> n.rec, snapshot |-> n.it, pollingSnapshot |-> ps, cdc |-> cd]
    ELSE IF ps # NoIter
    THEN LET n == snapshotNext(ps)
         IN [rec |-> n.rec, snapshot |-> sn, pollingSnapshot |-> n.it, cdc |-> cd]
    ELSE [rec |-> cdcNext(cd), snapshot |-> sn, pollingSnapshot |-> ps, cdc |-> cd]

\* a NewCombined for which the marker is an error like any other
OpenWatch_NoFallback ==
    /\ pc = "closed"
    /\ LET position == parsePosition(LastSDKPosition)
       IN /\ openPos' = position
          /\ cdc' = IF cfg.csOK THEN newCDC(position) ELSE NoIter
          /\ pollingSnapshot' = NoIter
          /\ base' = IF position = NoPos
                     THEN [t0 |-> Len(oplog), docs |-> {}, max |-> Nil]
                     ELSE base
    /\ snapshot' = NoIter
    /\ pc' = IF cfg.csOK THEN "opening" ELSE "closed"
    /\ hasRead' = FALSE
    /\ runStart' = Len(out)
    /\ UNCHANGED <<engineVars, cfg, out>>

\* ---------------------------------------------------------------- source
\* Source.Open, first half: NewCombined parses the position and creates the
\* change stream (or, when the engine rejects it with the match/project
\* marker, the polling snapshot). The host passes the position of the last
\* record it was given.
OpenWatch ==
    /\ pc = "closed"
    /\ LET position == parsePosition(LastSDKPosition)
       IN /\ openPos' = position
          /\ IF cfg.csOK
             THEN /\ cdc' = newCDC(position)
                  /\ pollingSnapshot' = NoIter
             ELSE /\ cdc' = NoIter
                  /\ pollingSnapshot' = newPollingSnapshot(position)
          /\ base' = IF position = NoPos
                     THEN [t0 |-> Len(oplog), docs |-> {}, max |-> Nil]
                     ELSE base
    /\ snapshot' = NoIter
    /\ pc' = "opening"
    /\ hasRead' = FALSE
    /\ runStart' = Len(out)
    /\ UNCHANGED <<engineVars, cfg, out>>

\* a NewCombined that creates the snapshot iterator whatever the mode of the
\* position
OpenSnapshot_AnyMode ==
    /\ pc = "opening"
    /\ snapshot' =
          IF cfg.snapshot
          THEN newSnapshot(openPos, IF cdc # NoIter THEN ResumeToken(cdc) ELSE Nil)
          ELSE NoIter
    /\ base' = IF openPos = NoPos
               THEN [base EXCEPT !.max = getMaxFieldValue, !.docs = {d.id : d \in coll}]
               ELSE base
    /\ pc' = "open"
    /\ UNCHANGED <<engineVars, cfg, openPos, cdc, pollingSnapshot, hasRead, out, runStart>>

\* a NewCombined that opens the change stream after the snapshot iterator was
\* created: the snapshot carries the token of that later moment
OpenSnapshot_StreamLast ==
    /\ pc = "opening"
    /\ snapshot' =
          IF cfg.snapshot /\ (openPos = NoPos \/ openPos.Mode = modeSnapshot)
          THEN newSnapshot(openPos, IF cdc # NoIter
                                    THEN ResumeToken(createChangeStream(openPos)) ELSE Nil)
          ELSE NoIter
    /\ base' = IF openPos = NoPos
               THEN [base EXCEPT !.max = getMaxFieldValue, !.docs = {d.id : d \in coll}]
               ELSE base
    /\ pc' = "open"
    /\ UNCHANGED <<engineVars, cfg, openPos, cdc, pollingSnapshot, hasRead, out, runStart>>

\* Source.Open, second half: NewCombined creates the snapshot iterator when
\* the configuration asks for one and the position allows it.
OpenSnapshot ==
    /\ pc = "opening"
    /\ snapshot' =
          IF cfg.snapshot /\ (openPos = NoPos \/ openPos.Mode = modeSnapshot)
          THEN newSnapshot(openPos, IF cdc # NoIter THEN ResumeToken(cdc) ELSE Nil)
          ELSE NoIter
    /\ base' = IF openPos = NoPos
               THEN [base EXCEPT !.max = getMaxFieldValue, !.docs = {d.id : d \in coll}]
               ELSE base
    /\ pc' = "open"
    /\ UNCHANGED <<engineVars, cfg, openPos, cdc, pollingSnapshot, hasRead, out, runStart>>

\* Source.Read: HasNext, then BackoffRetry or Next
Read ==
    /\ pc = "open"
    /\ \E h \in {CombinedHasNext(snapshot, pollingSnapshot, cdc)} :
          IF h.ok
          THEN \E n \in {CombinedNext(h.snapshot, h.pollingSnapshot, h.cdc)} :
                  /\ snapshot' = n.snapshot
                  /\ pollingSnapshot' = n.pollingSnapshot
                  /\ cdc' = n.cdc
                  /\ out' = Append(out, n.rec)
                  /\ hasRead' = TRUE
          ELSE /\ snapshot' = h.snapshot
               /\ pollingSnapshot' = h.pollingSnapshot
               /\ cdc' = h.cdc
               /\ out' = out
               /\ hasRead' = TRUE
    /\ UNCHANGED <<engineVars, cfg, pc, openPos, runStart, base>>

\* Source.Teardown: Combined.Stop closes the sub-iterators that exist.
\* The host may tear down at any time; a run in which Read was never called
\* leaves no trace (the next Open rebuilds every sub-iterator from the same
\* position), so only runs with at least one Read are torn down here.
Teardown ==
    /\ pc = "open"
    /\ hasRead
    /\ snapshot' = IF snapshot # NoIter THEN snapshotStop(snapshot) ELSE snapshot
    /\ pollingSnapshot' = IF pollingSnapshot # NoIter THEN snapshotStop(pollingSnapshot)
                          ELSE pollingSnapshot
    /\ pc' = "closed"
    /\ UNCHANGED <<engineVars, cfg, openPos, cdc, hasRead, out, runStart, base>>

\* ---------------------------------------------------------------- specification
\* the collections at the start: ids are handed out in ascending order of the
\* ordering value (ids are labels, so nothing is lost); values may repeat
InitialCollections ==
    UNION {{{[id |-> i, ord |-> f[i], ver |-> 0] : i \in 1..k} :
                f \in {g \in [1..k -> Vals] : \A i \in 1..k, j \in 1..k : i < j => g[i] <= g[j]}}
           : k \in InitialSizes}

\* the reference run before the first Open
RefNone == [snapshot |-> NoIter, pollingSnapshot |-> NoIter, cdc |-> NoIter,
            out |-> <<>>]

\* CS: whether the engine accepts change streams; SN: Config.Snapshot
InitWith(CS, SN) ==
    /\ coll \in InitialCollections
    /\ nIds = Cardinality(coll)
    /\ oplog = <<>>
    /\ everDocs = {[id |-> d.id, ord |-> d.ord] : d \in coll}
    /\ cfg \in [snapshot : SN, batchSize : BatchSizes, csOK : CS]
    /\ pc = "closed"
    /\ openPos = NoPos
    /\ cdc = NoIter
    /\ snapshot = NoIter
    /\ pollingSnapshot = NoIter
    /\ hasRead = FALSE
    /\ out = <<>>
    /\ runStart = 0
    /\ base = [t0 |-> Nil, docs |-> {}, max |-> Nil]
    /\ ref = RefNone
    /\ result = NoResult
    /\ codec = NoCodec
    /\ client = "nil"
    /\ catalog = {ConfiguredNames}
    /\ dest = NoDest

\* an engine with change streams, snapshot = true (the default)
Init == InitWith({TRUE}, {TRUE})

Next ==
    \/ \E v \in Vals : Insert(v) /\ UNCHANGED shadowVars
    \/ \E d \in coll : Update(d) /\ UNCHANGED shadowVars
    \/ \E d \in coll : Delete(d) /\ UNCHANGED shadowVars
    \/ OpenWatch /\ UNCHANGED shadowVars
    \/ OpenSnapshot /\ UNCHANGED shadowVars
    \/ Read /\ UNCHANGED shadowVars
    \/ Teardown /\ UNCHANGED shadowVars

Spec == Init /\ [][Next]_vars

\* ---------------------------------------------------------------- reference run
\* The same steps, with an uninterrupted Source run next to the restarted one:
\* it is opened by the same Open (same change stream, same snapshot iterator)
\* whenever Open gets a nil position, its Read is called whenever Read is
\* called, and Teardown leaves it alone.

RefOpenWatch ==
    /\ OpenWatch
    /\ ref' = IF openPos' = NoPos
              THEN [snapshot |-> NoIter, pollingSnapshot |-> pollingSnapshot',
                    cdc |-> cdc', out |-> <<>>]
              ELSE ref
    /\ UNCHANGED <<result, codec, client, catalog, dest>>

RefOpenSnapshot ==
    /\ OpenSnapshot
    /\ ref' = IF openPos = NoPos THEN [ref EXCEPT !.snapshot = snapshot'] ELSE ref
    /\ UNCHANGED <<result, codec, client, catalog, dest>>

RefRead ==
    /\ Read
    /\ LET h == CombinedHasNext(ref.snapshot, ref.pollingSnapshot, ref.cdc)
       IN IF h.ok
          THEN LET n == CombinedNext(h.snapshot, h.pollingSnapshot, h.cdc)
               IN ref' = [ref EXCEPT !.snapshot = n.snapshot,
                                     !.pollingSnapshot = n.pollingSnapshot,
                                     !.cdc = n.cdc,
                                     !.out = Append(@, n.rec)]
          ELSE ref' = [ref EXCEPT !.snapshot = h.snapshot,
                                  !.pollingSnapshot = h.pollingSnapshot,
                                  !.cdc = h.cdc]
    /\ UNCHANGED <<result, codec, client, catalog, dest>>

RefTeardown == Teardown /\ UNCHANGED shadowVars

NextRef ==
    \/ \E v \in Vals : Insert(v) /\ UNCHANGED shadowVars
    \/ \E d \in coll : Update(d) /\ UNCHANGED shadowVars
    \/ \E d \in coll : Delete(d) /\ UNCHANGED shadowVars
    \/ RefOpenWatch
    \/ RefOpenSnapshot
    \/ RefRead
    \/ RefTeardown

SpecRef == Init /\ [][NextRef]_vars

\* ---------------------------------------------------------------- observations
\* the next Read would return BackoffRetry
Quiet == pc = "open" /\ ~CombinedHasNext(snapshot, pollingSnapshot, cdc).ok

\* no two documents that ever existed share an ordering-field value
DistinctOrd == \A a \in everDocs, b \in everDocs : a.id # b.id => a.ord # b.ord

IsSnap(r) == r.op = "snapshot"

\* change events returned so far as CDC records, and documents returned as
\* snapshot records
CdcSeen == {out[i].ev : i \in {j \in 1..Len(out) : ~IsSnap(out[j])}}
SnapSeen == {out[i].id : i \in {j \in 1..Len(out) : IsSnap(out[j])}}

\* the records returned by the current run
RunOut == SubSeq(out, runStart + 1, Len(out))
RunCdc == SelectSeq(RunOut, LAMBDA r : ~IsSnap(r))
RunSnap == SelectSeq(RunOut, LAMBDA r : IsSnap(r))

\* the events recorded after the first Open created its change stream
AfterBase == (base.t0 + 1)..Len(oplog)

C3_HandoffNoGapNoDuplicate ==
    (runStart = 0 /\ cfg.snapshot /\ cfg.csOK /\ DistinctOrd) =>
        /\ \A i \in 1..Len(out), j \in 1..Len(out) :
              (IsSnap(out[i]) /\ ~IsSnap(out[j])) =>
                  ~(out[i].id = out[j].id /\ out[i].ver = out[j].ver)
        /\ Quiet => \A d \in coll :
              \E i \in 1..Len(out) : out[i].id = d.id /\ out[i].ver = d.ver

\* ---------------------------------------------------------------- C4
\* the change stream's starting point in the current run: the resume token of
\* the position the run was opened with, else the end of the oplog at Open
RunT0 == IF openPos # NoPos /\ openPos.ResumeToken # Nil THEN openPos.ResumeToken ELSE base.t0

\* the current run started with a snapshot and has handed over to the change stream
HandedOff ==
    /\ pc = "open" /\ cfg.snapshot /\ cfg.csOK
    /\ openPos = NoPos \/ openPos.Mode = modeSnapshot
    /\ snapshot = NoIter /\ hasRead

\* no change recorded since the snapshot's start touches the snapshot window
NoneInWindow == \A e \in AfterBase : oplog[e].ord > base.max

\* C4: if none of the changes made while the snapshot was running touches a
\* document of the snapshot window, then after the hand-over the Reads return
\* exactly those changes, each once and in the order they occurred (the k-th
\* CDC record of the run is the k-th event after the stream's starting
\* point), none of them about a document the snapshot returned, and
\* BackoffRetry comes only when all of them have been returned.
C4_HandoffCorrectness ==
    (HandedOff /\ NoneInWindow) =>
        /\ \A k \in 1..Len(RunCdc) : RunCdc[k].ev = RunT0 + k
        /\ \A k \in 1..Len(RunCdc) : RunCdc[k].id \notin SnapSeen
        /\ Quiet => Len(RunCdc) = Len(oplog) - RunT0

\* two changes outside the window were made during the snapshot and both
\* have been returned after the hand-over
C4_Witness ==
    /\ HandedOff /\ NoneInWindow /\ Quiet
    /\ Len(RunSnap) > 0
    /\ Len(RunCdc) = 2

\* ---------------------------------------------------------------- C5
\* indices of the snapshot records in the history (one snapshot run: a new
\* snapshot starts only from a nil position, that is before any record)
SnapIdx == {i \in 1..Len(out) : IsSnap(out[i])}

SameRun(i, j) == (i > runStart) = (j > runStart)

PosOf(r) == parsePosition(r.pos)

\* the element of the position the snapshot continued from when it returned
\* out[i]: that of the record before it (also the position a restart is given)
LastElement(i) == IF i > 1 /\ IsSnap(out[i - 1]) THEN PosOf(out[i - 1]).Element ELSE Nil

OpenedMidSnapshot == openPos # NoPos /\ openPos.Mode = modeSnapshot

\* the documents left in the window of the position the run was opened with
OpenWindow == Matching(openPos.MaxElement, openPos.Element)

\* what the first Read of a run opened mid-snapshot does
FirstReadMidSnapshot ==
    (pc = "open" /\ OpenedMidSnapshot /\ ~hasRead /\ hasRead') =>
        IF OpenWindow # {}
        THEN /\ Len(out') = Len(out) + 1
             /\ IsSnap(out'[Len(out')])
             /\ out'[Len(out')].ord = Min({d.ord : d \in OpenWindow})
        ELSE IF openPos.ResumeToken < Len(oplog)
        THEN /\ Len(out') = Len(out) + 1
             /\ ~IsSnap(out'[Len(out')])
             /\ out'[Len(out')].ev = openPos.ResumeToken + 1
        ELSE out' = out

C9_SnapshotCarriesResumeToken ==
    /\ \A i \in SnapIdx :
          /\ PosOf(out[i]).ResumeToken # Nil
          /\ PosOf(out[i]).ResumeToken = base.t0
          /\ \A e \in AfterBase \ CdcSeen : PosOf(out[i]).ResumeToken < e
    /\ OpenedMidSnapshot =>
          /\ \A k \in 1..Len(RunCdc) :
                /\ RunCdc[k].ev = openPos.ResumeToken + k
                /\ RunCdc[k].id = oplog[RunCdc[k].ev].id
                /\ RunCdc[k].op \in {"create", "update", "delete"}
          /\ Quiet => Len(RunCdc) = Len(oplog) - openPos.ResumeToken

\* a run restarted from a snapshot position has returned, after the rest of
\* the snapshot, the two changes made in the meantime
C9_Witness ==
    /\ OpenedMidSnapshot /\ Quiet
    /\ Len(RunSnap) > 0
    /\ Len(RunCdc) = 2

\* ---------------------------------------------------------------- C10
\* the run was opened with a cdc-mode position that carries a resume token
OpenedInCDC == openPos # NoPos /\ openPos.Mode = modeCDC /\ openPos.ResumeToken # Nil

OpOf(e) == CASE e.op = operationTypeInsert -> "create"
             [] e.op = operationTypeUpdate -> "update"
             [] e.op = operationTypeDelete -> "delete"

\* C10: after Open with a cdc-mode position whose token is that of event e,
\* the records returned are exactly the events after e in change-stream
\* order: e is not returned again, and none is skipped.
C10_ResumeStrictlyAfter ==
    OpenedInCDC =>
        /\ \A k \in 1..Len(RunOut) :
              /\ RunOut[k].ev = openPos.ResumeToken + k
              /\ RunOut[k].op = OpOf(oplog[RunOut[k].ev])
              /\ RunOut[k].id = oplog[RunOut[k].ev].id
        /\ Quiet => Len(RunOut) = Len(oplog) - openPos.ResumeToken

\* a run resumed from the first event's position has returned the second
C10_Witness ==
    /\ OpenedInCDC /\ Quiet
    /\ openPos.ResumeToken = 1
    /\ Len(RunOut) = 1
    /\ RunOut[1].ev = 2

\* ---------------------------------------------------------------- C2
IsPrefix(a, b) == Len(a) <= Len(b) /\ \A k \in 1..Len(a) : a[k] = b[k]

\* a sequence without the records that repeat the one before them
RECURSIVE Dedup(_)
Dedup(q) ==
    IF Len(q) <= 1 THEN q
    ELSE LET r == Dedup(Tail(q))
         IN IF Head(q) = Head(r) THEN r ELSE <<Head(q)>> \o r

\* C2 as stated: for any collection history and any restarts, each from the
\* last returned position, the records returned over all runs, without the
\* duplicates at the restarts, are a prefix of what one uninterrupted run
\* returns.
C2_RestartPrefix == IsPrefix(Dedup(out), ref.out)

\* ---------------------------------------------------------------- reconfiguration
\* Source.Configure: between two runs the host may configure the Source anew;
\* sn is the snapshot flag of the new configuration.
Configure(sn) ==
    /\ pc = "closed"
    /\ sn # cfg.snapshot
    /\ cfg' = [cfg EXCEPT !.snapshot = sn]
    /\ UNCHANGED <<engineVars, pc, openPos, iterVars, hasRead, out, runStart, base>>

\* an engine with change streams, either value of the snapshot flag, and a
\* host that may change the flag between runs
InitCfg == InitWith({TRUE}, BOOLEAN)

NextCfg ==
    \/ \E v \in Vals : Insert(v) /\ UNCHANGED shadowVars
    \/ \E d \in coll : Update(d) /\ UNCHANGED shadowVars
    \/ \E d \in coll : Delete(d) /\ UNCHANGED shadowVars
    \/ OpenWatch /\ UNCHANGED shadowVars
    \/ OpenSnapshot /\ UNCHANGED shadowVars
    \/ Read /\ UNCHANGED shadowVars
    \/ Teardown /\ UNCHANGED shadowVars
    \/ \E sn \in BOOLEAN : Configure(sn) /\ UNCHANGED shadowVars

SpecCfg == InitCfg /\ [][NextCfg]_vars

\* ---------------------------------------------------------------- C11
\* NewCombined's condition for the snapshot iterator, for the current run
SnapshotDue == cfg.snapshot /\ (openPos = NoPos \/ openPos.Mode = modeSnapshot)

\* C11: on an engine with change streams, when NewCombined has returned the
\* snapshot iterator exists exactly if snapshot = true and the position is
\* nil or of mode snapshot; in every other case the run has the change
\* stream only and never returns a snapshot record.
C11_ConstructionDispatch ==
    pc = "open" =>
        /\ ~hasRead => ((snapshot # NoIter) <=> SnapshotDue)
        /\ ~SnapshotDue =>
              /\ snapshot = NoIter
              /\ cdc # NoIter
              /\ pollingSnapshot = NoIter
              /\ Len(RunSnap) = 0

\* a run configured with snapshot = false and opened with a snapshot-mode
\* position has returned a change and nothing else
C11_Witness ==
    /\ pc = "open" /\ ~cfg.snapshot
    /\ OpenedMidSnapshot
    /\ Quiet
    /\ Len(RunOut) > 0

\* ---------------------------------------------------------------- engines without change streams
\* Source.Open when Watch fails with an error that does not carry the
\* match/project marker: NewCombined returns the error and no iterator.
OpenWatchFails ==
    /\ pc = "closed"
    /\ openPos' = parsePosition(LastSDKPosition)
    /\ cdc' = NoIter
    /\ pollingSnapshot' = NoIter
    /\ snapshot' = NoIter
    /\ hasRead' = FALSE
    /\ runStart' = Len(out)
    /\ UNCHANGED <<engineVars, cfg, pc, out, base>>

\* what Open returned, read off the step: the answer Watch gave and whether
\* NewCombined went on
OpenResult(watch) ==
    [op |-> "open", watch |-> watch,
     err |-> IF pc' = "opening" THEN "none" ELSE "init cdc iterator"]

\* an engine that rejects change streams with the marker, either value of the
\* snapshot flag, a host that may change the flag between runs, and Watch
\* calls that may fail for another reason
InitPoll == InitWith({FALSE}, BOOLEAN)

NextPoll ==
    \/ \E v \in Vals : Insert(v) /\ UNCHANGED shadowVars
    \/ \E d \in coll : Update(d) /\ UNCHANGED shadowVars
    \/ \E d \in coll : Delete(d) /\ UNCHANGED shadowVars
    \/ OpenWatch /\ result' = OpenResult("marker") /\ UNCHANGED <<ref, codec, client, catalog, dest>>
    \/ OpenWatchFails /\ result' = OpenResult("other") /\ UNCHANGED <<ref, codec, client, catalog, dest>>
    \/ OpenSnapshot /\ UNCHANGED shadowVars
    \/ Read /\ UNCHANGED shadowVars
    \/ Teardown /\ result' = NoResult /\ UNCHANGED <<ref, codec, client, catalog, dest>>
    \/ \E sn \in BOOLEAN : Configure(sn) /\ UNCHANGED shadowVars

SpecPoll == InitPoll /\ [][NextPoll]_vars

\* ---------------------------------------------------------------- C12
\* NewCombined has just returned an iterator
JustOpened == pc = "open" /\ ~hasRead

InsertedSince == {e \in AfterBase : oplog[e].op = operationTypeInsert}

\* document i had, when it was inserted, an ordering-field value greater than
\* that of every document that existed before it
Rising(i) ==
    \A a \in everDocs, b \in everDocs : (b.id = i /\ a.id < i) => a.ord < b.ord

\* the records that return document i as a create
CreatesOf(i) == {k \in 1..Len(out) : out[k].id = i /\ out[k].op = "create"}

\* C13: in POLL state (no change streams, snapshot = false, one run from a nil
\* position), once Read answers BackoffRetry every document inserted after
\* Open with a value greater than every value before it, and still in the
\* collection, has been returned exactly once as a create record; this
\* includes the case of a collection that was empty at Open.
C13_PollingDetectsInserts ==
    (Quiet /\ ~cfg.csOK /\ ~cfg.snapshot /\ openPos = NoPos) =>
        \A e \in InsertedSince :
            (Rising(oplog[e].id) /\ \E d \in coll : d.id = oplog[e].id)
                => Cardinality(CreatesOf(oplog[e].id)) = 1

\* ---------------------------------------------------------------- C14
\* this step is a Read that returned a record of the polling iterator
PollingReturned ==
    /\ pc = "open" /\ pollingSnapshot # NoIter
    /\ snapshot' = NoIter
    /\ Len(out') = Len(out) + 1

ReturnsOf(i) == {k \in 1..Len(out) : out[k].id = i}

\* C15: on an engine that rejects change streams, a run restarted from the
\* last returned position, of mode snapshot or cdc, polls again, and once
\* Read answers BackoffRetry every document inserted since the first Open
\* (with a value greater than every value before it, and still in the
\* collection) has been returned at least once.
C15_PollingRestart ==
    (pc = "open" /\ ~cfg.csOK /\ openPos # NoPos /\ DistinctOrd) =>
        /\ pollingSnapshot # NoIter
        /\ Quiet =>
              \A e \in InsertedSince :
                  (Rising(oplog[e].id) /\ \E d \in coll : d.id = oplog[e].id)
                      => ReturnsOf(oplog[e].id) # {}

\* ---------------------------------------------------------------- failures
\* opencdc.Record{}: what Read returns next to BackoffRetry or an error
EmptyRecord == [op |-> "", id |-> 0, ord |-> 0, ver |-> 0, pos |-> NilSDKPosition, ev |-> 0]

\* what can go wrong in one Read: nothing; HasNext fails on its first call to
\* the engine and answers (false, err); HasNext answers (true, err), which the
\* Iterator interface allows; Next fails
ReadFaults == {"none", "hasNext", "hasNextTrue", "next"}

\* a Read that looks at the boolean of HasNext before its error
ReadOutcome_BoolFirst(hasNext, hasNextErr, nextErr) ==
    IF ~hasNext
    THEN [kind |-> IF hasNextErr THEN "error" ELSE "backoff", wrap |-> "has next",
          nextCalled |-> FALSE]
    ELSE IF hasNextErr \/ nextErr
    THEN [kind |-> "error", wrap |-> "get next record", nextCalled |-> TRUE]
    ELSE [kind |-> "record", wrap |-> "", nextCalled |-> TRUE]

\* the control flow of Source.Read on the answers of Iterator.HasNext and
\* Iterator.Next: what it returns and whether it called Next
ReadOutcome(hasNext, hasNextErr, nextErr) ==
    IF hasNextErr
    THEN [kind |-> "error", wrap |-> "has next", nextCalled |-> FALSE]
    ELSE IF ~hasNext
    THEN [kind |-> "backoff", wrap |-> "", nextCalled |-> FALSE]
    ELSE IF nextErr
    THEN [kind |-> "error", wrap |-> "get next record", nextCalled |-> TRUE]
    ELSE [kind |-> "record", wrap |-> "", nextCalled |-> TRUE]

\* Source.Read with the fault f. A record is appended to out only when Read
\* returns one; a failed Next leaves the position where it was, but the
\* cursor or stream has moved in HasNext already.
ReadWithFault(f) ==
    /\ pc = "open"
    /\ LET h == CombinedHasNext(snapshot, pollingSnapshot, cdc)
           hasNext == IF f = "hasNext" THEN FALSE ELSE h.ok
           hasNextErr == f \in {"hasNext", "hasNextTrue"}
           o == ReadOutcome(hasNext, hasNextErr, f = "next")
           sn == IF f = "hasNext" THEN snapshot ELSE h.snapshot
           ps == IF f = "hasNext" THEN pollingSnapshot ELSE h.pollingSnapshot
           cd == IF f = "hasNext" THEN cdc ELSE h.cdc
       IN /\ f \in {"hasNextTrue", "next"} => h.ok
          /\ IF o.kind = "record"
             THEN LET n == CombinedNext(sn, ps, cd)
                  IN /\ snapshot' = n.snapshot
                     /\ pollingSnapshot' = n.pollingSnapshot
                     /\ cdc' = n.cdc
                     /\ out' = Append(out, n.rec)
                     /\ result' = [op |-> "read", kind |-> o.kind, rec |-> n.rec,
                                   hasNext |-> [ok |-> hasNext, err |-> hasNextErr],
                                   nextCalled |-> o.nextCalled, nextErr |-> FALSE]
             ELSE /\ snapshot' = sn
                  /\ pollingSnapshot' = ps
                  /\ cdc' = cd
                  /\ out' = out
                  /\ result' = [op |-> "read", kind |-> o.kind, rec |-> EmptyRecord,
                                hasNext |-> [ok |-> hasNext, err |-> hasNextErr],
                                nextCalled |-> o.nextCalled,
                                nextErr |-> o.nextCalled /\ f = "next"]
    /\ hasRead' = TRUE
    /\ UNCHANGED <<engineVars, cfg, pc, openPos, runStart, base>>

\* positions that are not JSON: zero bytes, and bytes json.Unmarshal rejects
EmptySDKPosition == [k \in {"empty"} |-> TRUE]
MalformedSDKPosition == [k \in {"malformed"} |-> TRUE]

\* the error of parsePosition: errNilSDKPosition for nil and nothing else,
\* the error of json.Unmarshal for bytes that are not a JSON object
parsePositionErr(sdkPosition) ==
    IF sdkPosition = NilSDKPosition THEN "errNilSDKPosition"
    ELSE IF sdkPosition \in {EmptySDKPosition, MalformedSDKPosition}
    THEN "unmarshal opencdc.Position into position"
    ELSE "none"

\* Source.Open with the position the host kept, all of NewCombined's first
\* half; the result records the position that was passed
OpenWatchKept ==
    /\ OpenWatch
    /\ result' = [op |-> "open", position |-> LastSDKPosition,
                  err |-> IF parsePositionErr(LastSDKPosition) \in {"none", "errNilSDKPosition"}
                          THEN "none" ELSE "parse sdk position"]

\* Source.Open with a position that parsePosition rejects with an error other
\* than errNilSDKPosition: NewCombined returns before newCDC
OpenRejected(sdkPosition) ==
    /\ pc = "closed"
    /\ parsePositionErr(sdkPosition) \notin {"none", "errNilSDKPosition"}
    /\ cdc' = NoIter
    /\ pollingSnapshot' = NoIter
    /\ snapshot' = NoIter
    /\ hasRead' = FALSE
    /\ runStart' = Len(out)
    /\ result' = [op |-> "open", position |-> sdkPosition, err |-> "parse sdk position"]
    /\ UNCHANGED <<engineVars, cfg, pc, openPos, out, base>>

\* the sub-iterators in the order Combined.Stop visits them
StopOrder == <<"snapshot", "polling snapshot", "cdc">>

\* Combined.Stop on the sub-iterators sn, ps, cd when the closes named in
\* failing fail: the sub-iterators whose stop was called, in order, and the
\* failures the returned error reports. Stop returns at the first failure.
CombinedStop(sn, ps, cd, failing) ==
    LET exists(i) == CASE i = 1 -> sn # NoIter
                       [] i = 2 -> ps # NoIter
                       [] i = 3 -> cd # NoIter
        failed == {i \in 1..3 : exists(i) /\ StopOrder[i] \in failing}
        last == IF failed = {} THEN 3
                ELSE CHOOSE i \in failed : \A j \in failed : i <= j
        called == {i \in 1..3 : exists(i) /\ i <= last}
    IN [stopped |-> [n \in 1..3 |-> n \in called],
        reported |-> IF failed = {} THEN {} ELSE {StopOrder[last]}]

\* the closes that can fail: snapshot.stop closes a cursor only when it has
\* one, cdc.stop closes the change stream
Closable ==
    (IF snapshot # NoIter /\ snapshot.cursor.open THEN {"snapshot"} ELSE {})
    \cup (IF pollingSnapshot # NoIter /\ pollingSnapshot.cursor.open
          THEN {"polling snapshot"} ELSE {})
    \cup (IF cdc # NoIter THEN {"cdc"} ELSE {})

\* Source.Teardown when the closes in failing fail
TeardownWithFault(failing) ==
    /\ pc = "open"
    /\ hasRead
    /\ failing \subseteq Closable
    /\ LET st == CombinedStop(snapshot, pollingSnapshot, cdc, failing)
       IN /\ snapshot' = IF snapshot # NoIter /\ st.stopped[1] /\ "snapshot" \notin failing
                         THEN snapshotStop(snapshot) ELSE snapshot
          /\ pollingSnapshot' =
                IF pollingSnapshot # NoIter /\ st.stopped[2] /\ "polling snapshot" \notin failing
                THEN snapshotStop(pollingSnapshot) ELSE pollingSnapshot
          /\ result' = [op |-> "teardown",
                        existing |-> [n \in 1..3 |-> CASE n = 1 -> snapshot # NoIter
                                                       [] n = 2 -> pollingSnapshot # NoIter
                                                       [] n = 3 -> cdc # NoIter],
                        failing |-> failing,
                        stopped |-> st.stopped,
                        reported |-> st.reported]
    /\ pc' = "closed"
    /\ UNCHANGED <<engineVars, cfg, openPos, cdc, hasRead, out, runStart, base>>

\* the connector with failures, on an engine with change streams and with
\* Config.Snapshot true
InitErr == InitWith({TRUE}, {TRUE})

NextErr ==
    \/ (\E v \in Vals : Insert(v)) /\ UNCHANGED shadowVars
    \/ (\E d \in coll : Update(d)) /\ UNCHANGED shadowVars
    \/ (\E d \in coll : Delete(d)) /\ UNCHANGED shadowVars
    \/ OpenWatchKept /\ UNCHANGED <<ref, codec, client, catalog, dest>>
    \/ (\E b \in {EmptySDKPosition, MalformedSDKPosition} : OpenRejected(b))
          /\ UNCHANGED <<ref, codec, client, catalog, dest>>
    \/ OpenSnapshot /\ UNCHANGED shadowVars
    \/ (\E f \in ReadFaults : ReadWithFault(f)) /\ UNCHANGED <<ref, codec, client, catalog, dest>>
    \/ (\E failing \in SUBSET {"snapshot", "polling snapshot", "cdc"} :
            TeardownWithFault(failing)) /\ UNCHANGED <<ref, codec, client, catalog, dest>>

SpecErr == InitErr /\ [][NextErr]_vars

\* C16: each Read returns exactly one of the record Next produced (HasNext
\* answered true without error and Next succeeded), BackoffRetry with an empty
\* record (HasNext answered false without error), or an error with an empty
\* record (HasNext or Next failed); Next is called only after HasNext answered
\* true without error, and not when HasNext answered true with an error.
C16_ReadOutcome ==
    result.op = "read" =>
        /\ result.kind \in {"record", "backoff", "error"}
        /\ result.kind = "record"
              <=> (result.hasNext.ok /\ ~result.hasNext.err
                      /\ result.nextCalled /\ ~result.nextErr)
        /\ result.kind = "backoff" <=> (~result.hasNext.ok /\ ~result.hasNext.err)
        /\ result.kind = "error"
              <=> (result.hasNext.err \/ (result.nextCalled /\ result.nextErr))
        /\ result.kind = "record" => (out # <<>> /\ result.rec = out[Len(out)])
        /\ result.kind # "record" => result.rec = EmptyRecord
        /\ result.nextCalled <=> (result.hasNext.ok /\ ~result.hasNext.err)

\* a Read in which HasNext answered true with an error, after a Read that
\* returned a record
C16_Witness ==
    /\ result.op = "read"
    /\ result.kind = "error"
    /\ result.hasNext.ok /\ result.hasNext.err
    /\ out # <<>>

\* ---------------------------------------------------------------- positions of records
\* the connector on either kind of engine, with Config.Snapshot true: the
\* snapshot, the change stream and the polling iterator all return records
InitModes == InitWith(BOOLEAN, {TRUE})

SpecModes == InitModes /\ [][Next]_vars

\* C17: every record Read returned, from the snapshot, the change stream or
\* the polling iterator, carries a position that is neither nil nor empty
\* and that parsePosition accepts; its mode is snapshot exactly for the
\* records with operation snapshot, and cdc for all others.
C17_RecordPositions ==
    \A k \in 1..Len(out) :
        LET r == out[k]
        IN /\ r.pos \notin {NilSDKPosition, EmptySDKPosition}
           /\ parsePositionErr(r.pos) = "none"
           /\ parsePosition(r.pos).Mode \in {modeSnapshot, modeCDC}
           /\ parsePosition(r.pos).Mode = modeSnapshot <=> r.op = "snapshot"
           /\ r.op # "snapshot" => parsePosition(r.pos).Mode = modeCDC

\* a history with a snapshot record followed by a record of the polling
\* iterator
C17_Witness ==
    /\ ~cfg.csOK
    /\ \E k \in 1..Len(out) : out[k].op = "snapshot"
    /\ \E k \in 1..Len(out) : out[k].op = "create"

\* ---------------------------------------------------------------- position codec, typed
\* The values of the ordering field as Go values. The engine decodes the
\* field into an any: a 64-bit integer, a double or a string (object ids
\* are mapped to strings by the registry of the source). Integers are
\* written hi * 2^53 + lo, so that the integers a double cannot hold are
\* among them.
MaxLo == 3

GoNil == [go |-> "nil"]

Int64s == {[go |-> "int64", hi |-> hi, lo |-> lo] : hi \in {0, 1}, lo \in 0..MaxLo}

\* the doubles with an integral value: from 2^53 on only every second integer
Float64s == {f \in {[go |-> "float64", hi |-> hi, lo |-> lo] :
                        hi \in {0, 1}, lo \in 0..(MaxLo + 1)} :
                f.hi = 1 => f.lo % 2 = 0}

Strings == {[go |-> "string", s |-> s] : s \in {"a", "b"}}

\* resume tokens: non-empty bson.Raw documents
RawTokens == {[go |-> "bson.Raw", raw |-> t] : t \in {1, 2}}

\* the double nearest to the integer hi * 2^53 + lo, ties to the even
\* mantissa: below 2^53 every integer is a double; from 2^53 to 2^54 the
\* doubles are the even integers
Float64Of(hi, lo) ==
    IF hi = 0 \/ lo % 2 = 0 THEN [go |-> "float64", hi |-> hi, lo |-> lo]
    ELSE IF ((lo - 1) \div 2) % 2 = 0
    THEN [go |-> "float64", hi |-> hi, lo |-> lo - 1]
    ELSE [go |-> "float64", hi |-> hi, lo |-> lo + 1]

\* json.Marshal of a field value: integers and integral doubles are written
\* as their decimal digits, strings quoted, a bson.Raw ([]byte) as base64
jsonMarshalValue(v) ==
    CASE v.go \in {"int64", "float64"} -> [json |-> "number", hi |-> v.hi, lo |-> v.lo]
      [] v.go = "string" -> [json |-> "string", s |-> v.s]
      [] v.go = "bson.Raw" -> [json |-> "base64", raw |-> v.raw]

\* json.Unmarshal of a JSON value into a field of type any: a number becomes
\* a float64, a string a string
jsonUnmarshalAny(j) ==
    CASE j.json = "number" -> Float64Of(j.hi, j.lo)
      [] j.json = "string" -> [go |-> "string", s |-> j.s]

\* json.Unmarshal of a JSON string into a field of type bson.Raw
jsonUnmarshalRaw(j) == [go |-> "bson.Raw", raw |-> j.raw]

\* position.marshalSDKPosition on typed fields: mode always, the other keys
\* unless empty (omitempty: a nil any, a bson.Raw of length zero)
jsonMarshalPosition(p) ==
    LET keys == {"mode"}
                  \cup (IF p.ResumeToken = GoNil THEN {} ELSE {"resumeToken"})
                  \cup (IF p.Element = GoNil THEN {} ELSE {"element"})
                  \cup (IF p.MaxElement = GoNil THEN {} ELSE {"maxElement"})
    IN [k \in keys |-> CASE k = "mode" -> [json |-> "string", s |-> p.Mode]
                         [] k = "resumeToken" -> jsonMarshalValue(p.ResumeToken)
                         [] k = "element" -> jsonMarshalValue(p.Element)
                         [] k = "maxElement" -> jsonMarshalValue(p.MaxElement)]

\* parsePosition on the bytes of a JSON object: absent keys leave the zero
\* value of the field
jsonUnmarshalPosition(b) ==
    [Mode |-> b["mode"].s,
     ResumeToken |-> IF "resumeToken" \in DOMAIN b
                     THEN jsonUnmarshalRaw(b["resumeToken"]) ELSE GoNil,
     Element |-> IF "element" \in DOMAIN b THEN jsonUnmarshalAny(b["element"]) ELSE GoNil,
     MaxElement |-> IF "maxElement" \in DOMAIN b
                    THEN jsonUnmarshalAny(b["maxElement"]) ELSE GoNil]

\* the positions the iterators build: snapshot.next writes the ordering value
\* of the row and the maximum (mode snapshot with the token of the change
\* stream, mode cdc without one when polling), toRecord writes the token
OrderingValues == Int64s \cup Float64s \cup Strings

EmittedPositions ==
    {[Mode |-> modeSnapshot, ResumeToken |-> t, Element |-> e, MaxElement |-> m] :
        t \in RawTokens, e \in OrderingValues, m \in OrderingValues}
    \cup {[Mode |-> modeCDC, ResumeToken |-> GoNil, Element |-> e, MaxElement |-> m] :
        e \in OrderingValues, m \in OrderingValues}
    \cup {[Mode |-> modeCDC, ResumeToken |-> t, Element |-> GoNil, MaxElement |-> GoNil] :
        t \in RawTokens}

\* a position is built, marshalled into a record, parsed at the next Open and
\* marshalled again by the iterator that carries it on
InitCodec ==
    /\ coll = {}
    /\ nIds = 0
    /\ oplog = <<>>
    /\ everDocs = {}
    /\ cfg = [snapshot |-> TRUE, batchSize |-> 1, csOK |-> TRUE]
    /\ pc = "closed"
    /\ openPos = NoPos
    /\ cdc = NoIter
    /\ snapshot = NoIter
    /\ pollingSnapshot = NoIter
    /\ hasRead = FALSE
    /\ out = <<>>
    /\ runStart = 0
    /\ base = [t0 |-> Nil, docs |-> {}, max |-> Nil]
    /\ ref = RefNone
    /\ result = NoResult
    /\ client = "nil"
    /\ catalog = {ConfiguredNames}
    /\ dest = NoDest
    /\ codec \in {[stage |-> "built", p |-> p] : p \in EmittedPositions}

MarshalBuilt ==
    /\ codec.stage = "built"
    /\ codec' = [stage |-> "marshalled", p |-> codec.p, b |-> jsonMarshalPosition(codec.p)]

ParseMarshalled ==
    /\ codec.stage = "marshalled"
    /\ codec' = [stage |-> "parsed", p |-> codec.p, b |-> codec.b,
                 q |-> jsonUnmarshalPosition(codec.b)]

MarshalParsed ==
    /\ codec.stage = "parsed"
    /\ codec' = [stage |-> "remarshalled", p |-> codec.p, b |-> codec.b, q |-> codec.q,
                 b2 |-> jsonMarshalPosition(codec.q)]

NextCodec ==
    \/ MarshalBuilt /\ UNCHANGED <<engineVars, cfg, pc, openPos, iterVars, hasRead, out,
                                   runStart, base, ref, result,
                                   client, catalog, dest>>
    \/ ParseMarshalled /\ UNCHANGED <<engineVars, cfg, pc, openPos, iterVars, hasRead, out,
                                      runStart, base, ref, result,
                                   client, catalog, dest>>
    \/ MarshalParsed /\ UNCHANGED <<engineVars, cfg, pc, openPos, iterVars, hasRead, out,
                                    runStart, base, ref, result,
                                   client, catalog, dest>>

SpecCodec == InitCodec /\ [][NextCodec]_vars

\* the value of a field, whatever its Go type: two numbers are the same value
\* when they are the same integer
SameValue(v, w) ==
    IF v.go \in {"int64", "float64"} /\ w.go \in {"int64", "float64"}
    THEN v.hi = w.hi /\ v.lo = w.lo
    ELSE v = w

\* C18: for every position b the system emits,
\* marshalSDKPosition(parsePosition(b)) = b, and
\* parsePosition(marshalSDKPosition(p)) has the mode, element, maxElement and
\* resumeToken of p.
C18_RoundTrip ==
    /\ codec.stage = "remarshalled" => codec.b2 = codec.b
    /\ codec.stage \in {"parsed", "remarshalled"} =>
          /\ codec.q.Mode = codec.p.Mode
          /\ SameValue(codec.q.Element, codec.p.Element)
          /\ SameValue(codec.q.MaxElement, codec.p.MaxElement)
          /\ SameValue(codec.q.ResumeToken, codec.p.ResumeToken)

\* C19: a nil or zero-length position makes NewCombined behave as a fresh
\* start; a non-empty position that cannot be parsed makes NewCombined
\* return an error without opening a change stream or constructing any
\* sub-iterator.
C19_PositionDecoding ==
    result.op = "open" =>
        /\ result.position \in {NilSDKPosition, EmptySDKPosition} =>
              /\ result.err = "none"
              /\ pc \in {"opening", "open"}
              /\ openPos = NoPos
        /\ result.position = MalformedSDKPosition =>
              /\ result.err # "none"
              /\ pc = "closed"
              /\ cdc = NoIter /\ snapshot = NoIter /\ pollingSnapshot = NoIter

\* C20: Combined.Stop closes every sub-iterator that exists, in the order
\* snapshot, polling, change stream; when a close fails the later
\* sub-iterators are still closed, and the returned error reports every
\* failure.
C20_StopClosesAll ==
    result.op = "teardown" =>
        /\ result.stopped = result.existing
        /\ result.reported = result.failing

\* ---------------------------------------------------------------- lifecycle
\* what the engine may list: the configured names, another collection of the
\* configured database, the configured collection name in another database
Catalogs == SUBSET {ConfiguredNames, <<"db", "other">>, <<"other", "collection">>}

\* a GetMongoCollection that does not look at the collection names
GetMongoCollection_NoCollectionCheck(cat, db, collection) ==
    IF db \notin {p[1] : p \in cat}
    THEN [err |-> "database doesn't exist", name |-> db]
    ELSE [err |-> "none", name |-> collection]

\* common.GetMongoCollection: the database must be among the listed database
\* names and the collection among the listed collection names of it
GetMongoCollection(cat, db, collection) ==
    IF db \notin {p[1] : p \in cat}
    THEN [err |-> "database doesn't exist", name |-> db]
    ELSE IF collection \notin {p[2] : p \in {q \in cat : q[1] = db}}
    THEN [err |-> "collection doesn't exist", name |-> collection]
    ELSE [err |-> "none", name |-> collection]

\* mongo.Client.Disconnect: a connected client is disconnected; a client that
\* was disconnected before answers ErrClientDisconnected
Disconnect(c) ==
    IF c = "connected" THEN [client |-> "disconnected", err |-> "none"]
    ELSE [client |-> c, err |-> "client is disconnected"]

\* Source.Teardown and Destination.Teardown after the iterator, if any, was
\* stopped without error: the client is disconnected when there is one
TeardownClient(c) ==
    IF c = "nil" THEN [client |-> c, err |-> "none"]
    ELSE LET d == Disconnect(c)
         IN [client |-> d.client,
             err |-> IF d.err = "none" THEN "none" ELSE "client disconnect"]

\* the collections a Destination can reach: the configured one and another
TargetNames == {ConfiguredNames[2], "other"}

\* a Destination after NewDestination, next to the collections it can reach
\* (colls) and the calls its latest Write made to the engine (calls)
NewDestination ==
    [client |-> "nil", writer |-> "nil", colls |-> [n \in TargetNames |-> <<>>],
     calls |-> <<>>]

\* Source.Open: connect, look the names up, then NewCombined's first half
OpenChecked ==
    /\ client' = "connected"
    /\ LET g == GetMongoCollection(catalog, ConfiguredNames[1], ConfiguredNames[2])
       IN IF g.err = "none"
          THEN /\ OpenWatch
               /\ result' = [op |-> "open", of |-> "source", err |-> g.err, name |-> g.name]
          ELSE /\ pc = "closed"
               /\ result' = [op |-> "open", of |-> "source", err |-> g.err, name |-> g.name]
               /\ UNCHANGED <<engineVars, cfg, pc, openPos, iterVars, hasRead, out,
                              runStart, base>>
    /\ UNCHANGED <<ref, codec, catalog, dest>>

\* Source.Teardown of an open Source
TeardownOpen ==
    /\ Teardown
    /\ client' = TeardownClient(client).client
    /\ result' = [op |-> "teardown", of |-> "source", before |-> client,
                  err |-> TeardownClient(client).err]
    /\ UNCHANGED <<ref, codec, catalog, dest>>

\* Source.Teardown of a Source that is not open: before any Open there is
\* no iterator; after a Teardown, Combined.Stop closes the cursor and the
\* change stream once more, which the driver allows
TeardownClosed ==
    /\ pc = "closed"
    /\ client' = TeardownClient(client).client
    /\ result' = [op |-> "teardown", of |-> "source", before |-> client,
                  err |-> TeardownClient(client).err]
    /\ UNCHANGED <<engineVars, cfg, pc, openPos, iterVars, hasRead, out, runStart, base,
                   ref, codec, catalog, dest>>

\* Destination.Open: connect, look the names up, create the writer
DestinationOpen ==
    /\ dest.client \in {"nil", "disconnected"}
    /\ LET g == GetMongoCollection(catalog, ConfiguredNames[1], ConfiguredNames[2])
       IN /\ dest' = [dest EXCEPT !.client = "connected",
                                  !.writer = IF g.err = "none" THEN "writer" ELSE @]
          /\ result' = [op |-> "open", of |-> "destination", err |-> g.err, name |-> g.name]
    /\ UNCHANGED <<engineVars, cfg, pc, openPos, iterVars, hasRead, out, runStart, base,
                   ref, codec, client, catalog>>

\* Destination.Teardown
DestinationTeardown ==
    /\ dest' = [dest EXCEPT !.client = TeardownClient(dest.client).client]
    /\ result' = [op |-> "teardown", of |-> "destination", before |-> dest.client,
                  err |-> TeardownClient(dest.client).err]
    /\ UNCHANGED <<engineVars, cfg, pc, openPos, iterVars, hasRead, out, runStart, base,
                   ref, codec, client, catalog>>

\* the Source and the Destination through their lifecycles, on an engine
\* that lists any of the catalogs and whose collection does not change
InitLife ==
    /\ coll \in InitialCollections
    /\ nIds = Cardinality(coll)
    /\ oplog = <<>>
    /\ everDocs = {[id |-> d.id, ord |-> d.ord] : d \in coll}
    /\ cfg \in [snapshot : {TRUE}, batchSize : BatchSizes, csOK : {TRUE}]
    /\ pc = "closed"
    /\ openPos = NoPos
    /\ cdc = NoIter
    /\ snapshot = NoIter
    /\ pollingSnapshot = NoIter
    /\ hasRead = FALSE
    /\ out = <<>>
    /\ runStart = 0
    /\ base = [t0 |-> Nil, docs |-> {}, max |-> Nil]
    /\ ref = RefNone
    /\ result = NoResult
    /\ codec = NoCodec
    /\ client = "nil"
    /\ catalog \in Catalogs
    /\ dest = NewDestination

NextLife ==
    \/ OpenChecked
    \/ OpenSnapshot /\ UNCHANGED shadowVars
    \/ Read /\ UNCHANGED shadowVars
    \/ TeardownOpen
    \/ TeardownClosed
    \/ DestinationOpen
    \/ DestinationTeardown

SpecLife == InitLife /\ [][NextLife]_vars

\* C21: Teardown is idempotent: Source.Teardown before any Open (no
\* iterator, no client) or a second time after a successful Teardown returns
\* no error, Combined.Stop included, and so does Destination.Teardown.
C21_TeardownIdempotent ==
    (result.op = "teardown" /\ result.before \in {"nil", "disconnected"}) =>
        result.err = "none"

\* a step that is a call of Source.Open
SourceOpens == pc = "closed" /\ result'.op = "open" /\ result'.of = "source"

\* C22: when the configured database or collection is not listed by the
\* engine, Source.Open returns an error naming the missing one; no iterator
\* is constructed, no change stream is opened, and the collection is not
\* created.
C22_OpenValidatesExistence ==
    [][(SourceOpens /\ ConfiguredNames \notin catalog) =>
          /\ result'.err # "none"
          /\ result'.name = IF \E p \in catalog : p[1] = ConfiguredNames[1]
                            THEN ConfiguredNames[2] ELSE ConfiguredNames[1]
          /\ result'.err = IF \E p \in catalog : p[1] = ConfiguredNames[1]
                           THEN "collection doesn't exist" ELSE "database doesn't exist"
          /\ pc' = "closed"
          /\ iterVars' = iterVars
          /\ catalog' = catalog
          /\ oplog' = oplog /\ coll' = coll]_vars

\* Open has failed on a database that lists another collection only
C22_Witness ==
    /\ result.op = "open" /\ result.of = "source"
    /\ result.err = "collection doesn't exist"
    /\ pc = "closed"
    /\ <<"db", "other">> \in catalog

\* ---------------------------------------------------------------- destination
\* Go values of record fields
Str(s) == [go |-> "string", s |-> s]
Int64(n) == [go |-> "int64", hi |-> 0, lo |-> n]

\* the strings primitive.ObjectIDFromHex accepts (24 hex digits, either
\* case), with the object id each denotes, named by its lower-case hex
ObjectIDHex == [s \in {"h1", "H1", "h2"} |-> IF s = "H1" THEN "h1" ELSE s]

\* a codec that writes every string as a string
EncodeValue_AlwaysString(val) ==
    IF val.go # "string"
    THEN [err |-> "StringEncodeValue", wrote |-> <<>>]
    ELSE [err |-> "none", wrote |-> <<[bson |-> "string", s |-> val.s]>>]

\* StringObjectIDCodec.EncodeValue: the error, and what was written to the
\* value writer
EncodeValue(val) ==
    IF val.go # "string"
    THEN [err |-> "StringEncodeValue", wrote |-> <<>>]
    ELSE IF val.s \in DOMAIN ObjectIDHex
    THEN [err |-> "none", wrote |-> <<[bson |-> "objectId", hex |-> ObjectIDHex[val.s]]>>]
    ELSE [err |-> "none", wrote |-> <<[bson |-> "string", s |-> val.s]>>]

\* BSON encoding under the registry of newBSONCodecRegistry: strings go
\* through the codec, the other kinds through the driver's encoders
encodeBSON(v) ==
    CASE v.go = "string" -> EncodeValue(v).wrote[1]
      [] v.go = "float64" -> [bson |-> "double", hi |-> v.hi, lo |-> v.lo]
      [] v.go = "int64" -> [bson |-> "int64", hi |-> v.hi, lo |-> v.lo]
      [] v.go = "ObjectID" -> [bson |-> "objectId", hex |-> v.hex]

\* json.Unmarshal(data.Bytes(), &m) for structured data: every value goes
\* through JSON into an any
unmarshalData(data) == [k \in DOMAIN data |-> jsonUnmarshalAny(jsonMarshalValue(data[k]))]

\* bson.M(m) as the engine receives it
encodeDocument(m) == [k \in DOMAIN m |-> encodeBSON(m[k])]

\* a document matches a filter when it has every field of the filter with
\* an equal value; the empty filter matches every document
Matches(doc, filter) == \A k \in DOMAIN filter : k \in DOMAIN doc /\ doc[k] = filter[k]

FirstMatch(docs, filter) ==
    IF \E i \in 1..Len(docs) : Matches(docs[i], filter)
    THEN CHOOSE i \in 1..Len(docs) :
            /\ Matches(docs[i], filter)
            /\ \A j \in 1..(i - 1) : ~Matches(docs[j], filter)
    ELSE 0

\* Collection.InsertOne: a second document with the same _id is a duplicate
\* key error
InsertOne(docs, doc) ==
    IF \E i \in 1..Len(docs) : docs[i]["_id"] = doc["_id"]
    THEN [docs |-> docs, err |-> "duplicate key"]
    ELSE [docs |-> Append(docs, doc), err |-> "none"]

\* Collection.UpdateOne with {$set: set}, no upsert: the first match gets the
\* fields of set
UpdateOne(docs, filter, set) ==
    LET i == FirstMatch(docs, filter)
    IN IF i = 0 THEN [docs |-> docs, err |-> "none"]
       ELSE [docs |-> [docs EXCEPT ![i] =
                          [k \in DOMAIN docs[i] \cup DOMAIN set |->
                              IF k \in DOMAIN set THEN set[k] ELSE docs[i][k]]],
             err |-> "none"]

\* Collection.DeleteOne: the first match is removed
DeleteOne(docs, filter) ==
    LET i == FirstMatch(docs, filter)
    IN IF i = 0 THEN [docs |-> docs, err |-> "none"]
       ELSE [docs |-> SubSeq(docs, 1, i - 1) \o SubSeq(docs, i + 1, Len(docs)),
             err |-> "none"]

\* the fields of m without _id
WithoutID(m) == [k \in DOMAIN m \ {"_id"} |-> m[k]]

\* Writer.insert on the documents of the writer's collection: the documents
\* afterwards, the call made, the error
writerInsert(docs, record) ==
    LET payload == unmarshalData(record.after)
        r == InsertOne(docs, encodeDocument(payload))
    IN [docs |-> r.docs, err |-> r.err,
        call |-> [op |-> "insertOne", doc |-> encodeDocument(payload)]]

\* structured data without a field
NoData == <<>>

\* no call to the engine
NoCall == [op |-> "none"]

\* a writer that accepts every key
checkKey_AnyKey(keys) == "none"

\* the check of the key of an update or delete record: an empty key is the
\* error ErrEmptyKey
checkKey(keys) == IF keys = NoData THEN "ErrEmptyKey" ELSE "none"

\* Writer.update
writerUpdate(docs, record) ==
    LET payload == WithoutID(unmarshalData(record.after))
        keys == unmarshalData(record.key)
        r == UpdateOne(docs, encodeDocument(keys), encodeDocument(payload))
    IN IF checkKey(keys) # "none"
       THEN [docs |-> docs, err |-> checkKey(keys), call |-> NoCall]
       ELSE [docs |-> r.docs, err |-> r.err,
             call |-> [op |-> "updateOne", filter |-> encodeDocument(keys),
                       set |-> encodeDocument(payload)]]

\* Writer.delete
writerDelete(docs, record) ==
    LET keys == unmarshalData(record.key)
        r == DeleteOne(docs, encodeDocument(keys))
    IN IF checkKey(keys) # "none"
       THEN [docs |-> docs, err |-> checkKey(keys), call |-> NoCall]
       ELSE [docs |-> r.docs, err |-> r.err,
             call |-> [op |-> "deleteOne", filter |-> encodeDocument(keys)]]

\* a Writer.Write that sends snapshot records to update
WriterWrite_SnapshotUpdates(docs, record) ==
    CASE record.op = "create" -> writerInsert(docs, record)
      [] record.op = "update" -> writerUpdate(docs, record)
      [] record.op = "delete" -> writerDelete(docs, record)
      [] record.op = "snapshot" -> writerUpdate(docs, record)

\* Writer.Write: Route sends create and snapshot to insert, update to
\* update, delete to delete
WriterWrite(docs, record) ==
    CASE record.op = "create" -> writerInsert(docs, record)
      [] record.op = "update" -> writerUpdate(docs, record)
      [] record.op = "delete" -> writerDelete(docs, record)
      [] record.op = "snapshot" -> writerInsert(docs, record)

\* a Destination.Write that goes on after a record failed
WriteFrom_GoesOn(docs, records, i, calls) ==
    LET RECURSIVE go(_, _, _, _)
        go(ds, k, cs, failed) ==
            IF k > Len(records)
            THEN [n |-> IF failed = 0 THEN Len(records) ELSE failed - 1,
                  err |-> IF failed = 0 THEN "none" ELSE "write record",
                  docs |-> ds, calls |-> cs]
            ELSE LET w == WriterWrite(ds, records[k])
                     c == [record |-> k - 1, err |-> w.err, call |-> w.call]
                 IN go(w.docs, k + 1, Append(cs, c),
                       IF failed = 0 /\ w.err # "none" THEN k ELSE failed)
    IN go(docs, i, calls, 0)

\* Destination.Write from the i-th record on (i counts from 1, the index
\* returned counts from 0): the index and error returned, the documents
\* afterwards and the calls made to the engine
RECURSIVE WriteFrom(_, _, _, _)
WriteFrom(docs, records, i, calls) ==
    IF i > Len(records)
    THEN [n |-> Len(records), err |-> "none", docs |-> docs, calls |-> calls]
    ELSE LET w == WriterWrite(docs, records[i])
             c == [record |-> i - 1, err |-> w.err, call |-> w.call]
         IN IF w.err # "none"
            THEN [n |-> i - 1, err |-> "write record", docs |-> w.docs,
                  calls |-> Append(calls, c)]
            ELSE WriteFrom(w.docs, records, i + 1, Append(calls, c))

\* the records a Destination is given: _id a hex string or another string,
\* one more field, with or without a collection name in the metadata; update
\* and delete records also with an empty key
MaxBatch == 2

RecordIDs == {Str("h1"), Str("a")}

\* a record with key {_id: id} and payload {_id: id, v: n}
RecordOf(op, id, n, m) ==
    [op |-> op, key |-> [k \in {"_id"} |-> id],
     after |-> [k \in {"_id", "v"} |-> IF k = "_id" THEN id ELSE Int64(n)],
     collection |-> m]

DestRecords ==
    {RecordOf("create", id, 1, "") : id \in RecordIDs}
    \cup {RecordOf("create", Str("h1"), 2, ""),
          RecordOf("snapshot", Str("a"), 2, ""),
          RecordOf("snapshot", Str("h1"), 1, "other"),
          RecordOf("update", Str("h1"), 2, ""),
          RecordOf("update", Str("a"), 2, "other"),
          [op |-> "update", key |-> NoData, after |-> [k \in {"v"} |-> Int64(2)],
           collection |-> ""],
          [op |-> "delete", key |-> [k \in {"_id"} |-> Str("h1")], after |-> NoData,
           collection |-> ""],
          [op |-> "delete", key |-> NoData, after |-> NoData, collection |-> ""]}

Batches == UNION {[1..n -> DestRecords] : n \in 0..MaxBatch}

\* Destination.Write on an open Destination; the writer holds the configured
\* collection
DestinationWrite(records) ==
    /\ dest.client = "connected"
    /\ dest.writer = "writer"
    /\ LET name == ConfiguredNames[2]
           w == WriteFrom(dest.colls[name], records, 1, <<>>)
       IN /\ dest' = [dest EXCEPT !.colls[name] = w.docs, !.calls = w.calls]
          /\ result' = [op |-> "write", records |-> records, n |-> w.n, err |-> w.err,
                        before |-> dest.colls]
    /\ UNCHANGED <<engineVars, cfg, pc, openPos, iterVars, hasRead, out, runStart, base,
                   ref, codec, client, catalog>>

\* a Destination on an engine that lists the configured names
InitDest ==
    /\ coll = {}
    /\ nIds = 0
    /\ oplog = <<>>
    /\ everDocs = {}
    /\ cfg = [snapshot |-> TRUE, batchSize |-> 1, csOK |-> TRUE]
    /\ pc = "closed"
    /\ openPos = NoPos
    /\ cdc = NoIter
    /\ snapshot = NoIter
    /\ pollingSnapshot = NoIter
    /\ hasRead = FALSE
    /\ out = <<>>
    /\ runStart = 0
    /\ base = [t0 |-> Nil, docs |-> {}, max |-> Nil]
    /\ ref = RefNone
    /\ result = NoResult
    /\ codec = NoCodec
    /\ client = "nil"
    /\ catalog = {ConfiguredNames, <<ConfiguredNames[1], "other">>}
    /\ dest = NewDestination

NextDest ==
    \/ DestinationOpen
    \/ \E records \in Batches : DestinationWrite(records)
    \/ DestinationTeardown

SpecDest == InitDest /\ [][NextDest]_vars

\* C23: Destination.Write applies the records of a batch in order: it returns
\* (len(records), nil) when every record is written, and otherwise (i, error)
\* with i the index of the first failing record; records 0..i-1 have each been
\* applied exactly once and the records after i have not been attempted.
C23_WriteInOrder ==
    result.op = "write" =>
        LET calls == dest.calls
        IN /\ \A k \in 1..Len(calls) : calls[k].record = k - 1
           /\ \A k \in 1..(Len(calls) - 1) : calls[k].err = "none"
           /\ result.err = "none" =>
                 /\ result.n = Len(result.records)
                 /\ Len(calls) = Len(result.records)
                 /\ \A k \in 1..Len(calls) : calls[k].err = "none"
           /\ result.err # "none" =>
                 /\ result.n < Len(result.records)
                 /\ Len(calls) = result.n + 1
                 /\ calls[Len(calls)].err # "none"

\* a batch of two whose first record failed: the second was not attempted
C23_Witness ==
    /\ result.op = "write"
    /\ Len(result.records) = 2
    /\ result.n = 0 /\ result.err # "none"
    /\ Len(dest.calls) = 1

\* the engine received the value b for the record's value g: a number as
\* the same number, a string as itself or as the object id it spells
SameStored(g, b) ==
    IF g.go = "string"
    THEN \/ b.bson = "string" /\ b.s = g.s
         \/ b.bson = "objectId" /\ g.s \in DOMAIN ObjectIDHex /\ ObjectIDHex[g.s] = b.hex
    ELSE b.bson \in {"double", "int64"} /\ b.hi = g.hi /\ b.lo = g.lo

SameFields(m, d) == DOMAIN m = DOMAIN d /\ \A k \in DOMAIN m : SameStored(m[k], d[k])

\* the documents after the engine has executed the calls from the k-th on
RECURSIVE ApplyCalls(_, _, _)
ApplyCalls(docs, calls, k) ==
    IF k > Len(calls) THEN docs
    ELSE LET c == calls[k].call
         IN ApplyCalls(CASE c.op = "insertOne" -> InsertOne(docs, c.doc).docs
                         [] c.op = "updateOne" -> UpdateOne(docs, c.filter, c.set).docs
                         [] c.op = "deleteOne" -> DeleteOne(docs, c.filter).docs
                         [] c.op = "none" -> docs,
                       calls, k + 1)

C26_LastWriterWins ==
    (/\ result.op = "write"
     /\ Len(result.records) = 1
     /\ result.records[1].op \in {"snapshot", "create"}
     /\ result.records[1].collection = ""
     /\ \E i \in 1..Len(result.before[ConfiguredNames[2]]) :
           SameStored(result.records[1].after["_id"],
                      result.before[ConfiguredNames[2]][i]["_id"]))
    => /\ result.err = "none"
       /\ \E i \in 1..Len(dest.colls[ConfiguredNames[2]]) :
             SameFields(result.records[1].after, dest.colls[ConfiguredNames[2]][i])

\* C27: if a record's metadata carries a collection name the write is applied
\* to that collection and the configured collection is left unchanged;
\* otherwise the write is applied to the configured collection.
C27_CollectionRouting ==
    (result.op = "write" /\ Len(result.records) = 1 /\ result.err = "none") =>
        LET r == result.records[1]
            target == IF r.collection = "" THEN ConfiguredNames[2] ELSE r.collection
        IN /\ \A n \in TargetNames \ {target} : dest.colls[n] = result.before[n]
           /\ dest.colls[target] = ApplyCalls(result.before[target], dest.calls, 1)


\* ---------------------------------------------------------------- _id through source and destination
\* the values of _id a collection of the source holds
StoredIDs ==
    {[bson |-> "objectId", hex |-> h] : h \in {"h1", "h2"}}
      \cup {[bson |-> "string", s |-> s] : s \in {"a", "b", "h1", "H1", "h2"}}
      \cup {[bson |-> "int64", hi |-> v.hi, lo |-> v.lo] : v \in Int64s}
      \cup {[bson |-> "double", hi |-> v.hi, lo |-> v.lo] : v \in Float64s}

\* the Go values a string encoder can be handed
GoValues ==
    {Str(s) : s \in {"a", "b", "h1", "H1", "h2"}} \cup Int64s \cup Float64s \cup {GoNil}

\* Decode into a map[string]any under the registry of the source: an object
\* id becomes the string of its hex digits, the other types their Go type
decodeBSON(b) ==
    CASE b.bson = "objectId" -> Str(b.hex)
      [] b.bson = "string" -> Str(b.s)
      [] b.bson = "int64" -> [go |-> "int64", hi |-> b.hi, lo |-> b.lo]
      [] b.bson = "double" -> [go |-> "float64", hi |-> b.hi, lo |-> b.lo]

InitID ==
    /\ coll = {}
    /\ nIds = 0
    /\ oplog = <<>>
    /\ everDocs = {}
    /\ cfg = [snapshot |-> TRUE, batchSize |-> 1, csOK |-> TRUE]
    /\ pc = "closed"
    /\ openPos = NoPos
    /\ cdc = NoIter
    /\ snapshot = NoIter
    /\ pollingSnapshot = NoIter
    /\ hasRead = FALSE
    /\ out = <<>>
    /\ runStart = 0
    /\ base = [t0 |-> Nil, docs |-> {}, max |-> Nil]
    /\ ref = RefNone
    /\ result = NoResult
    /\ client = "nil"
    /\ catalog = {ConfiguredNames}
    /\ dest = NoDest
    /\ codec \in {[stage |-> "stored", id |-> b] : b \in StoredIDs}
                   \cup {[stage |-> "value", val |-> v] : v \in GoValues}

\* the string encoder is applied to a value
EncodeGoValue ==
    /\ codec.stage = "value"
    /\ codec' = [stage |-> "encoded", val |-> codec.val, r |-> EncodeValue(codec.val)]

\* snapshot.next: the document is decoded and the record built, its key and
\* its payload carrying the decoded _id
ReadStoredID ==
    /\ codec.stage = "stored"
    /\ LET element == [_id |-> decodeBSON(codec.id), v |-> Int64(1)]
       IN codec' = [stage |-> "record", id |-> codec.id,
                    key |-> [_id |-> element["_id"]], after |-> element]

\* Writer.insert on that record into an empty collection
WriteReadID ==
    /\ codec.stage = "record"
    /\ LET w == writerInsert(<<>>, [op |-> "snapshot", key |-> codec.key,
                                    after |-> codec.after, collection |-> ""])
       IN codec' = [stage |-> "written", id |-> codec.id, key |-> codec.key,
                    after |-> codec.after, err |-> w.err, docs |-> w.docs]

NextID ==
    \/ EncodeGoValue /\ UNCHANGED <<engineVars, cfg, pc, openPos, iterVars, hasRead, out,
                                    runStart, base, ref, result, client, catalog, dest>>
    \/ ReadStoredID /\ UNCHANGED <<engineVars, cfg, pc, openPos, iterVars, hasRead, out,
                                   runStart, base, ref, result, client, catalog, dest>>
    \/ WriteReadID /\ UNCHANGED <<engineVars, cfg, pc, openPos, iterVars, hasRead, out,
                                  runStart, base, ref, result, client, catalog, dest>>

SpecID == InitID /\ [][NextID]_vars

\* C28: StringObjectIDCodec.EncodeValue writes the typed object id of a
\* string that is a valid hex object id, writes any other string unchanged,
\* and for a value whose kind is not string returns the error
\* StringEncodeValue and writes nothing.
C28_EncodeValue ==
    codec.stage = "encoded" =>
        IF codec.val.go # "string"
        THEN codec.r.err = "StringEncodeValue" /\ codec.r.wrote = <<>>
        ELSE IF codec.val.s \in {"h1", "H1", "h2"}
        THEN /\ codec.r.err = "none"
             /\ codec.r.wrote = <<[bson |-> "objectId", hex |-> ObjectIDHex[codec.val.s]]>>
        ELSE /\ codec.r.err = "none"
             /\ codec.r.wrote = <<[bson |-> "string", s |-> codec.val.s]>>

\* a hex string has been encoded as an object id
C28_Witness ==
    /\ codec.stage = "encoded"
    /\ codec.val = Str("h2")
    /\ codec.r.wrote = <<[bson |-> "objectId", hex |-> "h2"]>>

\* the same value of a field, whatever its numeric type
SameBSON(b, c) ==
    IF b.bson \in {"int64", "double"} /\ c.bson \in {"int64", "double"}
    THEN b.hi = c.hi /\ b.lo = c.lo
    ELSE b = c

\* C29: a document whose _id is an object id is emitted with key and payload
\* _id equal to its hex string, and the destination writes that record as a
\* document whose _id is the same object id; an _id of any other type, or a
\* string that is not hex, reaches the destination collection with the
\* value it had in the source collection.
C29_IDRoundTrip ==
    /\ (codec.stage \in {"record", "written"} /\ codec.id.bson = "objectId") =>
          /\ codec.key["_id"] = Str(codec.id.hex)
          /\ codec.after["_id"] = Str(codec.id.hex)
    /\ (codec.stage \in {"record", "written"} /\ codec.id.bson # "objectId") =>
          /\ codec.key["_id"] = decodeBSON(codec.id)
          /\ codec.after["_id"] = decodeBSON(codec.id)
    /\ (codec.stage = "written" /\ codec.id.bson = "objectId") =>
          /\ codec.err = "none"
          /\ codec.docs[1]["_id"] = codec.id
    /\ (codec.stage = "written" /\ codec.id.bson # "objectId"
          /\ ~(codec.id.bson = "string" /\ codec.id.s \in DOMAIN ObjectIDHex)) =>
          /\ codec.err = "none"
          /\ SameBSON(codec.docs[1]["_id"], codec.id)


\* ---------------------------------------------------------------- change events, typed
\* a map[string]any that is nil
NilMap == [go |-> "nil map"]

\* the operation types of the engine's change events; the pipeline of the
\* stream asks for the first three only
OperationTypes ==
    {operationTypeInsert, operationTypeUpdate, operationTypeDelete,
     "replace", "drop", "invalidate"}

\* decoded change events: the token, the key of the document, the operation
\* and the full document (nil when the engine sends none)
ChangeStreamEvents ==
    {[ID |-> t, DocumentKey |-> [_id |-> k], OperationType |-> o, FullDocument |-> d] :
        t \in RawTokens, k \in {Str("h1"), Str("a"), Int64(1)}, o \in OperationTypes,
        d \in {NilMap, [_id |-> Str("h1"), v |-> Int64(1)], [_id |-> Int64(1), v |-> Int64(2)]}}

\* opencdc.Record{}
ZeroRecord == [Operation |-> "", Position |-> GoNil, Key |-> GoNil, After |-> GoNil]

\* a conversion that reports updates as creations
changeStreamEvent_toRecord_UpdateAsCreate(e) ==
    LET sdkPosition == jsonMarshalPosition([Mode |-> modeCDC, ResumeToken |-> e.ID,
                                            Element |-> GoNil, MaxElement |-> GoNil])
    IN CASE e.OperationType \in {operationTypeInsert, operationTypeUpdate} ->
              [rec |-> [Operation |-> "create", Position |-> sdkPosition,
                        Key |-> e.DocumentKey, After |-> e.FullDocument],
               err |-> "none"]
         [] e.OperationType = operationTypeDelete ->
              [rec |-> [Operation |-> "delete", Position |-> sdkPosition,
                        Key |-> e.DocumentKey, After |-> GoNil],
               err |-> "none"]
         [] OTHER -> [rec |-> ZeroRecord, err |-> "errUnsupportedOperationType"]

\* changeStreamEvent.toRecord on a decoded event: the record and the error
changeStreamEvent_toRecord(e) ==
    LET sdkPosition == jsonMarshalPosition([Mode |-> modeCDC, ResumeToken |-> e.ID,
                                            Element |-> GoNil, MaxElement |-> GoNil])
    IN CASE e.OperationType = operationTypeInsert ->
              [rec |-> [Operation |-> "create", Position |-> sdkPosition,
                        Key |-> e.DocumentKey, After |-> e.FullDocument],
               err |-> "none"]
         [] e.OperationType = operationTypeUpdate ->
              [rec |-> [Operation |-> "update", Position |-> sdkPosition,
                        Key |-> e.DocumentKey, After |-> e.FullDocument],
               err |-> "none"]
         [] e.OperationType = operationTypeDelete ->
              [rec |-> [Operation |-> "delete", Position |-> sdkPosition,
                        Key |-> e.DocumentKey, After |-> GoNil],
               err |-> "none"]
         [] OTHER -> [rec |-> ZeroRecord, err |-> "errUnsupportedOperationType"]

InitEvent ==
    /\ coll = {}
    /\ nIds = 0
    /\ oplog = <<>>
    /\ everDocs = {}
    /\ cfg = [snapshot |-> TRUE, batchSize |-> 1, csOK |-> TRUE]
    /\ pc = "closed"
    /\ openPos = NoPos
    /\ cdc = NoIter
    /\ snapshot = NoIter
    /\ pollingSnapshot = NoIter
    /\ hasRead = FALSE
    /\ out = <<>>
    /\ runStart = 0
    /\ base = [t0 |-> Nil, docs |-> {}, max |-> Nil]
    /\ ref = RefNone
    /\ result = NoResult
    /\ client = "nil"
    /\ catalog = {ConfiguredNames}
    /\ dest = NoDest
    /\ codec \in {[stage |-> "event", e |-> e] : e \in ChangeStreamEvents}

\* cdc.next: the decoded event is converted
ConvertEvent ==
    /\ codec.stage = "event"
    /\ codec' = [stage |-> "converted", e |-> codec.e, r |-> changeStreamEvent_toRecord(codec.e)]

\* the position of the record is parsed, as the next Open does
ParseEventPosition ==
    /\ codec.stage = "converted"
    /\ codec.r.err = "none"
    /\ codec' = [stage |-> "parsed", e |-> codec.e, r |-> codec.r,
                 q |-> jsonUnmarshalPosition(codec.r.rec.Position)]

NextEvent ==
    \/ ConvertEvent /\ UNCHANGED <<engineVars, cfg, pc, openPos, iterVars, hasRead, out,
                                   runStart, base, ref, result, client, catalog, dest>>
    \/ ParseEventPosition /\ UNCHANGED <<engineVars, cfg, pc, openPos, iterVars, hasRead, out,
                                         runStart, base, ref, result, client, catalog, dest>>

SpecEvent == InitEvent /\ [][NextEvent]_vars

\* C30: a change event with operationType insert, update or delete becomes a
\* record with operation create, update or delete, with key = documentKey
\* and position {mode cdc, resumeToken = the id of the event}; the payload
\* after is the full document for create and update and absent for delete;
\* any other operationType gives errUnsupportedOperationType and no record.
C30_ChangeEventMapping ==
    /\ (codec.stage \in {"converted", "parsed"}
          /\ codec.e.OperationType \in {operationTypeInsert, operationTypeUpdate,
                                        operationTypeDelete}) =>
          /\ codec.r.err = "none"
          /\ codec.r.rec.Operation =
                (CASE codec.e.OperationType = operationTypeInsert -> "create"
                   [] codec.e.OperationType = operationTypeUpdate -> "update"
                   [] codec.e.OperationType = operationTypeDelete -> "delete")
          /\ codec.r.rec.Key = codec.e.DocumentKey
          /\ codec.r.rec.After = (IF codec.e.OperationType = operationTypeDelete
                                  THEN GoNil ELSE codec.e.FullDocument)
    /\ (codec.stage = "converted"
          /\ codec.e.OperationType \notin {operationTypeInsert, operationTypeUpdate,
                                           operationTypeDelete}) =>
          /\ codec.r.err = "errUnsupportedOperationType"
          /\ codec.r.rec = ZeroRecord
    /\ codec.stage = "parsed" =>
          /\ codec.q.Mode = modeCDC
          /\ codec.q.ResumeToken = codec.e.ID
          /\ codec.q.Element = GoNil
          /\ codec.q.MaxElement = GoNil

\* an update event with a full document has become an update record whose
\* position has been read back
C30_Witness ==
    /\ codec.stage = "parsed"
    /\ codec.e.OperationType = operationTypeUpdate
    /\ codec.e.FullDocument # NilMap
    /\ codec.r.rec.Operation = "update"

\* ---------------------------------------------------------------- C31
\* the step of NewCombined that creates the snapshot iterator
SnapshotCreated == snapshot = NoIter /\ snapshot' # NoIter

\* C31: in NewCombined the change stream is opened, and its resume token
\* read, before the snapshot upper bound is computed and before any snapshot
\* batch is loaded: while the change stream is being opened there is no
\* snapshot iterator, and the step that creates the snapshot iterator finds
\* the change stream open, leaves it alone, hands the snapshot the token the
\* stream had when it was opened, takes the upper bound from the collection
\* as it is at that later moment, and has not run a snapshot query yet.
C31_ConstructionOrder ==
    [][/\ pc = "opening" => (snapshot = NoIter /\ cdc # NoIter)
       /\ SnapshotCreated =>
             /\ pc = "opening"
             /\ cdc # NoIter /\ cdc' = cdc
             /\ snapshot'.resumeToken = ResumeToken(cdc)
             /\ openPos = NoPos =>
                   /\ snapshot'.resumeToken = base.t0
                   /\ snapshot'.resumeToken <= Len(oplog)
                   /\ snapshot'.orderingFieldMaxValue = getMaxFieldValue
             /\ snapshot'.cursor = NoCursor]_vars

\* a snapshot iterator created after a document was inserted behind the
\* open change stream: the token is older than the upper bound
C31_Witness ==
    /\ pc = "open" /\ ~hasRead
    /\ openPos = NoPos
    /\ snapshot # NoIter
    /\ snapshot.resumeToken < Len(oplog)
    /\ snapshot.cursor = NoCursor
    /\ \E e \in AfterBase : oplog[e].op = operationTypeInsert
                               /\ oplog[e].ord = snapshot.orderingFieldMaxValue

\* ---------------------------------------------------------------- C32
\* a step inside one iterator instance
SameInstance == pc = "open" /\ pc' = "open"

\* C32: within an iterator instance the snapshot is left only when its
\* hasNext answers (false, nil); the snapshot sub-iterator is cleared then and
\* is not created again; and once a record of the change stream or of the
\* polling iterator has been returned, no snapshot record is returned by
\* that instance.
C32_OneWay ==
    [][SameInstance =>
          /\ (snapshot # NoIter /\ snapshot' = NoIter) =>
                /\ ~snapshotHasNext(snapshot).ok
                /\ hasRead'
          /\ (snapshot # NoIter /\ ~snapshotHasNext(snapshot).ok /\ out' # out) =>
                snapshot' = NoIter
          /\ snapshot = NoIter => snapshot' = NoIter
          /\ \A i \in (runStart + 1)..Len(out') : \A j \in (i + 1)..Len(out') :
                ~IsSnap(out'[i]) => ~IsSnap(out'[j])]_vars

\* an instance that returned a snapshot record, left the snapshot and then
\* returned a record of the change stream or of the polling iterator
C32_Witness ==
    /\ pc = "open"
    /\ snapshot = NoIter
    /\ Len(RunSnap) > 0
    /\ Len(RunCdc) > 0

\* ---------------------------------------------------------------- the iterator, call by call
\* One Combined, from NewCombined on, with HasNext, Next and Stop called one
\* at a time and with engine calls that fail.

\* the case the switch of Combined.HasNext and Combined.Next takes
Dispatch(sn, ps, cd) ==
    IF sn # NoIter THEN "snapshot"
    ELSE IF ps # NoIter THEN "pollingSnapshot"
    ELSE IF cd # NoIter THEN "cdc"
    ELSE "ErrNoIterator"

\* the engine calls of HasNext that can fail: Find and the cursor of the
\* snapshot and of the polling snapshot, the Close of the snapshot's cursor,
\* TryNext of the change stream
HasNextFaults ==
    {"none", "snapshot.find", "snapshot.cursor", "snapshot.close",
     "polling.find", "polling.cursor", "stream.next"}

\* a cursor that failed: it has no row and Err is set
FailedCursor == [open |-> TRUE, rows |-> <<>>, current |-> NoDoc]

\* snapshot.hasNext when Find fails (find) or the new cursor fails (cursor):
\* the answer, the error and the iterator afterwards
snapshotHasNextErr(s, find, cursor) ==
    IF s.cursor.open /\ s.cursor.rows # <<>>
    THEN [ok |-> TRUE, err |-> "none", it |-> TryNext(s)]
    ELSE IF find
    THEN [ok |-> FALSE, err |-> "load batch", it |-> s]
    ELSE IF cursor
    THEN [ok |-> FALSE, err |-> "cursor", it |-> [s EXCEPT !.cursor = FailedCursor]]
    ELSE LET h == snapshotHasNext(s)
         IN [ok |-> h.ok, err |-> "none", it |-> h.it]

\* cdc.hasNext when TryNext fails
cdcHasNextErr(c, fails) ==
    IF fails THEN [ok |-> FALSE, err |-> "stream", it |-> c]
    ELSE LET h == cdcHasNext(c)
         IN [ok |-> h.ok, err |-> "none", it |-> h.it]

\* a HasNext that drops the snapshot although closing its cursor failed
CombinedHasNextErr_DropsOnError(sn, ps, cd, f) ==
    LET pollingHasNext(sn1) ==
            LET hp == snapshotHasNextErr(ps, f = "polling.find", f = "polling.cursor")
            IN [ok |-> hp.ok, err |-> hp.err,
                snapshot |-> sn1, pollingSnapshot |-> hp.it, cdc |-> cd]
        streamHasNext(sn1) ==
            LET hc == cdcHasNextErr(cd, f = "stream.next")
            IN [ok |-> hc.ok, err |-> hc.err,
                snapshot |-> sn1, pollingSnapshot |-> ps, cdc |-> hc.it]
    IN CASE sn # NoIter ->
              LET h == snapshotHasNextErr(sn, f = "snapshot.find", f = "snapshot.cursor")
              IN IF h.err # "none"
                 THEN [ok |-> FALSE, err |-> "snapshot has next",
                       snapshot |-> NoIter, pollingSnapshot |-> ps, cdc |-> cd]
                 ELSE IF h.ok
                 THEN [ok |-> TRUE, err |-> "none",
                       snapshot |-> h.it, pollingSnapshot |-> ps, cdc |-> cd]
                 ELSE IF f = "snapshot.close" /\ h.it.cursor.open
                 THEN [ok |-> FALSE, err |-> "stop snapshot iterator",
                       snapshot |-> NoIter, pollingSnapshot |-> ps, cdc |-> cd]
                 ELSE IF ps # NoIter THEN pollingHasNext(NoIter)
                 ELSE streamHasNext(NoIter)
         [] sn = NoIter /\ ps # NoIter -> pollingHasNext(sn)
         [] sn = NoIter /\ ps = NoIter /\ cd # NoIter -> streamHasNext(sn)
         [] OTHER -> [ok |-> FALSE, err |-> "ErrNoIterator",
                      snapshot |-> sn, pollingSnapshot |-> ps, cdc |-> cd]

\* Combined.HasNext with the failing engine call f: the answer, the error and
\* the sub-iterators afterwards
CombinedHasNextErr(sn, ps, cd, f) ==
    LET pollingHasNext(sn1) ==
            LET hp == snapshotHasNextErr(ps, f = "polling.find", f = "polling.cursor")
            IN [ok |-> hp.ok, err |-> hp.err,
                snapshot |-> sn1, pollingSnapshot |-> hp.it, cdc |-> cd]
        streamHasNext(sn1) ==
            LET hc == cdcHasNextErr(cd, f = "stream.next")
            IN [ok |-> hc.ok, err |-> hc.err,
                snapshot |-> sn1, pollingSnapshot |-> ps, cdc |-> hc.it]
    IN CASE sn # NoIter ->
              LET h == snapshotHasNextErr(sn, f = "snapshot.find", f = "snapshot.cursor")
              IN IF h.err # "none"
                 THEN [ok |-> FALSE, err |-> "snapshot has next",
                       snapshot |-> h.it, pollingSnapshot |-> ps, cdc |-> cd]
                 ELSE IF h.ok
                 THEN [ok |-> TRUE, err |-> "none",
                       snapshot |-> h.it, pollingSnapshot |-> ps, cdc |-> cd]
                 ELSE IF f = "snapshot.close" /\ h.it.cursor.open
                 THEN [ok |-> FALSE, err |-> "stop snapshot iterator",
                       snapshot |-> h.it, pollingSnapshot |-> ps, cdc |-> cd]
                 ELSE IF ps # NoIter THEN pollingHasNext(NoIter)
                 ELSE streamHasNext(NoIter)
         [] sn = NoIter /\ ps # NoIter -> pollingHasNext(sn)
         [] sn = NoIter /\ ps = NoIter /\ cd # NoIter -> streamHasNext(sn)
         [] OTHER -> [ok |-> FALSE, err |-> "ErrNoIterator",
                      snapshot |-> sn, pollingSnapshot |-> ps, cdc |-> cd]

\* Combined.Next when Decode fails (decode): the record, the error and the
\* sub-iterators afterwards; a failed Decode returns before the position of
\* the iterator is written
CombinedNextErr(sn, ps, cd, decode) ==
    IF Dispatch(sn, ps, cd) = "ErrNoIterator"
    THEN [rec |-> EmptyRecord, err |-> "ErrNoIterator",
          snapshot |-> sn, pollingSnapshot |-> ps, cdc |-> cd]
    ELSE IF decode
    THEN [rec |-> EmptyRecord, err |-> "decode",
          snapshot |-> sn, pollingSnapshot |-> ps, cdc |-> cd]
    ELSE LET n == CombinedNext(sn, ps, cd)
         IN [rec |-> n.rec, err |-> "none",
             snapshot |-> n.snapshot, pollingSnapshot |-> n.pollingSnapshot, cdc |-> n.cdc]

\* a Stop that drops the sub-iterators it has closed
CombinedStopErr_Drops(sn, ps, cd, failing) ==
    LET st == CombinedStop(sn, ps, cd, failing)
    IN [err |-> IF st.reported = {} THEN "none" ELSE "stop",
        snapshot |-> IF sn # NoIter /\ st.stopped[1] /\ "snapshot" \notin failing
                     THEN NoIter ELSE sn,
        pollingSnapshot |-> IF ps # NoIter /\ st.stopped[2] /\ "polling snapshot" \notin failing
                            THEN NoIter ELSE ps,
        cdc |-> IF cd # NoIter /\ st.stopped[3] /\ "cdc" \notin failing THEN NoIter ELSE cd]

\* Combined.Stop when the closes in failing fail: the error and the
\* sub-iterators afterwards, their cursors closed
CombinedStopErr(sn, ps, cd, failing) ==
    LET st == CombinedStop(sn, ps, cd, failing)
    IN [err |-> IF st.reported = {} THEN "none" ELSE "stop",
        snapshot |-> IF sn # NoIter /\ st.stopped[1] /\ "snapshot" \notin failing
                     THEN snapshotStop(sn) ELSE sn,
        pollingSnapshot |-> IF ps # NoIter /\ st.stopped[2] /\ "polling snapshot" \notin failing
                            THEN snapshotStop(ps) ELSE ps,
        cdc |-> cd]


\* decode failures injected per iterator instance, and HasNext calls in a row
\* that answer true
MaxDecodeFailures == 1
MaxHasNext == 2

\* the rows whose Decode has failed so far, and the record Next would have
\* returned after the first HasNext of the current run of HasNext calls
FailedSoFar == IF "failed" \in DOMAIN result THEN result.failed ELSE {}
InStreak == "first" \in DOMAIN result /\ result.op = "hasNext" /\ result.ok

\* what identifies the row or event behind a record
RowOf(r) == [op |-> r.op, id |-> r.id, ord |-> r.ord, ev |-> r.ev]

\* Combined.HasNext is called; the engine call f fails
HasNextCall(f) ==
    /\ pc = "open"
    /\ InStreak => result.calls < MaxHasNext
    /\ LET h == CombinedHasNextErr(snapshot, pollingSnapshot, cdc, f)
           peek == CombinedNext(h.snapshot, h.pollingSnapshot, h.cdc).rec
       IN /\ f # "none" => h.err # "none"
          /\ snapshot' = h.snapshot
          /\ pollingSnapshot' = h.pollingSnapshot
          /\ cdc' = h.cdc
          /\ result' = [op |-> "hasNext", ok |-> h.ok, err |-> h.err, rec |-> EmptyRecord,
                        first |-> IF ~h.ok THEN EmptyRecord
                                  ELSE IF InStreak THEN result.first ELSE peek,
                        calls |-> IF ~h.ok THEN 0
                                  ELSE IF InStreak THEN result.calls + 1 ELSE 1,
                        failed |-> FailedSoFar]
    /\ hasRead' = TRUE
    /\ UNCHANGED <<engineVars, cfg, pc, openPos, out, runStart, base>>

\* Combined.Next is called after a HasNext that answered (true, nil); Decode
\* fails when decode is set
NextCall(decode) ==
    /\ pc = "open"
    /\ InStreak
    /\ decode => Cardinality(FailedSoFar) < MaxDecodeFailures
    /\ LET n == CombinedNextErr(snapshot, pollingSnapshot, cdc, decode)
           peek == CombinedNext(snapshot, pollingSnapshot, cdc).rec
       IN /\ snapshot' = n.snapshot
          /\ pollingSnapshot' = n.pollingSnapshot
          /\ cdc' = n.cdc
          /\ out' = IF n.err = "none" THEN Append(out, n.rec) ELSE out
          /\ result' = [op |-> "next", ok |-> TRUE, err |-> n.err, rec |-> n.rec,
                        first |-> result.first, calls |-> result.calls,
                        failed |-> IF decode THEN FailedSoFar \cup {RowOf(peek)}
                                   ELSE FailedSoFar]
    /\ UNCHANGED <<engineVars, cfg, pc, openPos, hasRead, runStart, base>>

\* Combined.Stop is called; the closes in failing fail
StopCall(failing) ==
    /\ pc = "open"
    /\ failing \subseteq Closable
    /\ LET st == CombinedStopErr(snapshot, pollingSnapshot, cdc, failing)
       IN /\ snapshot' = st.snapshot
          /\ pollingSnapshot' = st.pollingSnapshot
          /\ cdc' = st.cdc
          /\ result' = [op |-> "stop", ok |-> FALSE, err |-> st.err, rec |-> EmptyRecord,
                        first |-> EmptyRecord, calls |-> 0, failed |-> FailedSoFar]
    /\ pc' = "stopped"
    /\ UNCHANGED <<engineVars, cfg, openPos, hasRead, out, runStart, base>>

\* HasNext or Next is called on a stopped Combined: the switch still finds a
\* sub-iterator, whose closed cursor or stream answers with an error
CallStopped(method) ==
    /\ pc = "stopped"
    /\ result' = [op |-> method, ok |-> FALSE,
                  err |-> IF Dispatch(snapshot, pollingSnapshot, cdc) = "ErrNoIterator"
                          THEN "ErrNoIterator" ELSE "closed",
                  rec |-> EmptyRecord, first |-> EmptyRecord, calls |-> 0,
                  failed |-> FailedSoFar]
    /\ result' # result
    /\ UNCHANGED <<engineVars, cfg, pc, openPos, iterVars, hasRead, out, runStart, base>>

InitIter == InitWith(BOOLEAN, BOOLEAN)

\* other clients insert documents while the iterator runs
NextIter ==
    \/ (\E v \in Vals : Insert(v)) /\ UNCHANGED shadowVars
    \/ OpenWatch /\ UNCHANGED shadowVars
    \/ OpenSnapshot /\ UNCHANGED shadowVars
    \/ (\E f \in HasNextFaults : HasNextCall(f))
          /\ UNCHANGED <<ref, codec, client, catalog, dest>>
    \/ (\E decode \in BOOLEAN : NextCall(decode))
          /\ UNCHANGED <<ref, codec, client, catalog, dest>>
    \/ (\E failing \in SUBSET {"snapshot", "polling snapshot", "cdc"} : StopCall(failing))
          /\ UNCHANGED <<ref, codec, client, catalog, dest>>
    \/ (\E method \in {"hasNext", "next"} : CallStopped(method))
          /\ UNCHANGED <<ref, codec, client, catalog, dest>>

SpecIter == InitIter /\ [][NextIter]_vars

\* ---------------------------------------------------------------- C33
\* C33: after a successful NewCombined, whatever HasNext, Next and Stop calls
\* follow and whether they fail or not, exactly one of the change-stream
\* iterator and the polling iterator is non-nil, so that HasNext and Next
\* never return ErrNoIterator.
C33_AlwaysAnIterator ==
    pc \in {"open", "stopped"} =>
        /\ (cdc # NoIter) # (pollingSnapshot # NoIter)
        /\ Dispatch(snapshot, pollingSnapshot, cdc) # "ErrNoIterator"
        /\ "err" \in DOMAIN result => result.err # "ErrNoIterator"

\* a stopped Combined on which a failing HasNext, a failing Next and a
\* failing close have been seen, asked once more
C33_Witness ==
    /\ pc = "stopped"
    /\ result.op = "hasNext"
    /\ result.err = "closed"
    /\ FailedSoFar # {}
    /\ snapshot # NoIter
    /\ cdc # NoIter

\* ---------------------------------------------------------------- C34
\* the row or event f has been returned as a record
Returned(f) == \E k \in 1..Len(out) : out[k].id = f.id /\ out[k].ev = f.ev

\* the record r comes after the row or event f in the order of its iterator:
\* by ordering value for the rows of a snapshot, by position in the stream
\* for change events
Follows(r, f) ==
    IF f.ev = 0 THEN r.ev = 0 /\ r.ord > f.ord ELSE r.ev > f.ev

\* C34: if Next fails to decode the current snapshot document or change
\* event, that document or event is not skipped: no later Next on the same
\* iterator returns a record that follows it while it has never been
\* returned.
C34_NoSilentDrop ==
    (result.op = "next" /\ result.err = "none") =>
        \A f \in FailedSoFar : Follows(result.rec, f) => Returned(f)

\* ---------------------------------------------------------------- C35
\* C35: HasNext does not consume records: after k >= 1 calls of HasNext in a
\* row, each answering true, Next returns the record it would have returned
\* after the first of them, in the snapshot, the change stream and the
\* polling state.
C35_HasNextDoesNotConsume ==
    (result.op = "next" /\ result.err = "none") =>
        RowOf(result.rec) = RowOf(result.first)

\* ---------------------------------------------------------------- C40
\* HasNext has just failed inside the snapshot branch
SnapshotBranchFailed ==
    /\ pc = "open"
    /\ snapshot # NoIter
    /\ result'.op = "hasNext"
    /\ result'.err \in {"snapshot has next", "stop snapshot iterator"}

\* C40: if the snapshot's hasNext or the snapshot's stop returns an error
\* inside Combined.HasNext, HasNext returns (false, error), the snapshot
\* sub-iterator stays set with its position unchanged, no record is returned,
\* and a retried HasNext answers as the failed one would have without the
\* failure, with the same row current: nothing is lost or repeated.
C40_ErrorsKeepState ==
    [][SnapshotBranchFailed =>
          /\ result'.ok = FALSE
          /\ snapshot' # NoIter
          /\ snapshot'.position = snapshot.position
          /\ pollingSnapshot' = pollingSnapshot
          /\ cdc' = cdc
          /\ out' = out
          /\ CombinedHasNextErr(snapshot', pollingSnapshot', cdc', "none")
                = CombinedHasNextErr(snapshot, pollingSnapshot, cdc, "none")]_vars

\* closing the cursor of a finished snapshot has failed after a record was
\* returned, and the snapshot is still there
C40_Witness ==
    /\ pc = "open"
    /\ result.op = "hasNext"
    /\ result.err = "stop snapshot iterator"
    /\ snapshot # NoIter
    /\ out # <<>>

\* ---------------------------------------------------------------- one run, read to the end
\* A Source that is opened once and read again and again, while other
\* clients change the collection. The host keeps calling Read.
NextRun ==
    \/ (\E v \in Vals : Insert(v)) /\ UNCHANGED shadowVars
    \/ (\E d \in coll : Update(d)) /\ UNCHANGED shadowVars
    \/ (\E d \in coll : Delete(d)) /\ UNCHANGED shadowVars
    \/ OpenWatch /\ UNCHANGED shadowVars
    \/ OpenSnapshot /\ UNCHANGED shadowVars
    \/ Read /\ UNCHANGED shadowVars

SpecRun == Init /\ [][NextRun]_vars /\ WF_vars(Read /\ UNCHANGED shadowVars)

\* ---------------------------------------------------------------- C36
\* the snapshot records are bounded by the frozen upper bound and come in
\* ascending order of the ordering field
SnapshotBounded ==
    /\ \A i \in 1..Len(out) : IsSnap(out[i]) =>
          /\ base.max # Nil
          /\ out[i].ord <= base.max
          /\ PosOf(out[i]).MaxElement = base.max
    /\ \A i \in 1..Len(out) : \A j \in (i + 1)..Len(out) :
          (IsSnap(out[i]) /\ IsSnap(out[j])) => out[i].ord <= out[j].ord
    /\ snapshot # NoIter => snapshot.orderingFieldMaxValue = base.max

\* C36: with the upper bound frozen, repeated error-free Reads return
\* finitely many snapshot records, none above the bound, and the iterator
\* then leaves the snapshot, even if documents above the bound are inserted
\* while the snapshot runs.
C36_SnapshotFinite ==
    (pc = "open" /\ snapshot # NoIter)
        ~> (pc = "open" /\ snapshot = NoIter /\ SnapshotBounded)

\* the snapshot is over, and a document inserted above the bound after the
\* stream was opened has not been returned as a snapshot record
C36_Witness ==
    /\ pc = "open"
    /\ snapshot = NoIter
    /\ Len(RunSnap) >= 2
    /\ \E e \in AfterBase : /\ oplog[e].op = operationTypeInsert
                            /\ oplog[e].ord > base.max
                            /\ oplog[e].id \notin SnapSeen


\* ---------------------------------------------------------------- C37
\* the ids of the snapshot records of the current run, in the order returned
RunSnapIds == [i \in 1..Len(RunSnap) |-> RunSnap[i].id]

\* the first run has finished its snapshot of a collection nobody has written to
SnapshotOfFixedCollection ==
    /\ pc = "open"
    /\ cfg.snapshot
    /\ runStart = 0
    /\ snapshot = NoIter
    /\ oplog = <<>>

\* C37: when the collection does not change during the snapshot, the snapshot
\* records are, for every batchSize, each document at or below the upper
\* bound exactly once in ascending order, also when documents share an
\* ordering-field value.
C37_BatchSizeIndependence ==
    SnapshotOfFixedCollection =>
        RunSnapIds = [i \in 1..Cardinality(coll) |-> SortAsc(coll)[i].id]


\* ---------------------------------------------------------------- C38
\* records have been returned and none of them came from the change stream
OnlySnapshotSoFar == out # <<>> /\ \A i \in 1..Len(out) : IsSnap(out[i])

\* the position of the last record returned
LastPosition == PosOf(out[Len(out)])

\* nothing is left between the last position and the snapshot's upper bound
SnapshotExhausted == Matching(LastPosition.MaxElement, LastPosition.Element) = {}

\* a run opened from the last position that has not been read yet
Restarted == pc = "open" /\ runStart > 0 /\ ~hasRead

\* C38 as stated: once the snapshot is over and no change event has been
\* returned, the last position has mode cdc and the token taken at
\* construction, and an Open with it starts on the change stream alone,
\* resumed from that token.
C38_RestartInCDC ==
    (cfg.csOK /\ OnlySnapshotSoFar) =>
        /\ (pc = "open" /\ snapshot = NoIter) =>
              /\ LastPosition.Mode = modeCDC
              /\ LastPosition.ResumeToken = base.t0
        /\ (Restarted /\ SnapshotExhausted) =>
              /\ snapshot = NoIter
              /\ cdc = [token |-> base.t0, current |-> 0]

\* C38 amended: once the snapshot is over and no change event has been
\* returned, the last position has mode snapshot and the token taken at
\* construction; an Open with it starts with a snapshot iterator over what is
\* left up to the position's upper bound, and with the change stream resumed
\* from that token, where it stays until the first change event is returned.
C38_RestartAfterSnapshot ==
    (cfg.csOK /\ OnlySnapshotSoFar) =>
        /\ LastPosition.Mode = modeSnapshot
        /\ LastPosition.ResumeToken = base.t0
        /\ LastPosition.MaxElement = base.max
        /\ pc = "open" => cdc = [token |-> base.t0, current |-> 0]
        /\ Restarted =>
              /\ snapshot # NoIter
              /\ snapshot.position = LastPosition
              /\ snapshot.orderingFieldMaxValue = base.max
              /\ snapshot.resumeToken = base.t0

\* a run opened after the whole snapshot was returned, with a change waiting
C38_Witness ==
    /\ cfg.csOK
    /\ OnlySnapshotSoFar
    /\ Restarted
    /\ SnapshotExhausted
    /\ Len(out) >= 2
    /\ Len(oplog) > base.t0


\* ---------------------------------------------------------------- C39
\* the insert events recorded after the change stream of the latest Open with
\* a nil position was created
InsertedSinceOpen == {e \in AfterBase : oplog[e].op = operationTypeInsert}

\* the collection was empty when that Open created its change stream: every
\* document there has ever been was inserted later or deleted before
EmptyAtWatch ==
    \A d \in everDocs :
        \/ \E e \in AfterBase :
              oplog[e].op = operationTypeInsert /\ oplog[e].id = d.id
        \/ \E e \in 1..base.t0 :
              oplog[e].op = operationTypeDelete /\ oplog[e].id = d.id

\* snapshot = true, the engine accepts change streams, and the latest Open
\* with a nil position found the collection empty from beginning to end
OpenedOnEmpty ==
    /\ cfg.snapshot
    /\ cfg.csOK
    /\ pc \in {"open", "closed"}
    /\ base.t0 # Nil
    /\ base.docs = {}
    /\ base.max = Nil
    /\ EmptyAtWatch

====
